---- MODULE Spec2Model ----
(***************************************************************************)
(* MPN search index: key normalizer, index store (variant_lookups), job    *)
(* tracker (sync_status), paginated full sync, bulk-export fetch with its   *)
(* polling and parser, product webhooks with their responses, the lookup   *)
(* route, and the update and full-sync producers side by side.             *)
(*                                                                         *)
(* Strings are sequences of one-character strings, so that stripping and   *)
(* upcasing are computed character by character.  JavaScript null is the   *)
(* value Null, which is no character sequence.                             *)
(***************************************************************************)
EXTENDS Integers, Sequences, FiniteSets, TLC

\* ------------------------------------------------------------------ text

Null == <<"null">>

LowerCase == <<"a","b","c","d","e","f","g","h","i","j","k","l","m",
               "n","o","p","q","r","s","t","u","v","w","x","y","z">>
UpperCase == <<"A","B","C","D","E","F","G","H","I","J","K","L","M",
               "N","O","P","Q","R","S","T","U","V","W","X","Y","Z">>
Digits == {"0","1","2","3","4","5","6","7","8","9"}

Range(s) == {s[i] : i \in DOMAIN s}

\* the character class [A-Z0-9] under the i flag
IsAlnum(c) == c \in Range(UpperCase) \cup Range(LowerCase) \cup Digits

\* JavaScript truthiness of a string-or-null value: null and "" are falsy
Falsy(s) == s = Null \/ s = <<>>

\* String.prototype.toUpperCase, one character
UpperOf(c) ==
  IF c \in Range(LowerCase)
  THEN UpperCase[CHOOSE i \in DOMAIN LowerCase : LowerCase[i] = c]
  ELSE c

toUpperCase(s) == [i \in DOMAIN s |-> UpperOf(s[i])]

\* mpn.replace(/[^A-Z0-9]/gi, '')
StripNonAlnum(s) == SelectSeq(s, IsAlnum)

\* A plausible slip: the class written without the i flag, so that lower-case
\* letters are stripped before upcasing.
normalizeMpn_caseSensitive(mpn) ==
  IF Falsy(mpn) THEN Null
  ELSE toUpperCase(SelectSeq(mpn, LAMBDA c : c \in Range(UpperCase) \cup Digits))

normalizeMpn(mpn) ==
  IF Falsy(mpn) THEN Null
  ELSE toUpperCase(StripNonAlnum(mpn))

\* String.prototype.trim over the characters the model uses
RECURSIVE TrimLeft(_)
TrimLeft(s) == IF s # <<>> /\ Head(s) = " " THEN TrimLeft(Tail(s)) ELSE s
RECURSIVE TrimRight(_)
TrimRight(s) ==
  IF s # <<>> /\ s[Len(s)] = " " THEN TrimRight(SubSeq(s, 1, Len(s) - 1)) ELSE s
trim(s) == TrimRight(TrimLeft(s))

\* ------------------------------------------------------- example values

Mpn7665Dash  == <<"7","6","6","5","-","P","P">>
Mpn7665Lower == <<"7","6","6","5","p","p">>
Mpn7665Space == <<"7","6","6","5"," ","P","P">>
Key7665PP    == <<"7","6","6","5","P","P">>
MpnT567L     == <<"T","5","6","7","L">>
MpnT567Long  == <<"T","5","6","7","L","9","9","0","0","P">>
MpnPunct     == <<"-","-">>
MpnShort     == <<"a","-">>

\* ------------------------------------------------------------ entities

\* `gid://shopify/Product/${id}`
ProductGid(id) == "gid://shopify/Product/" \o id

\* Upstream identifiers: the numeric product ids a webhook payload carries, the
\* product GIDs the catalog returns, and the variant GIDs.  v1 and v2 are the
\* variants of product 1, v3 is the variant of product 2.
ProductNums == {"1", "2"}
ProductIds == {ProductGid(n) : n \in ProductNums}
VariantOrder == <<"v1", "v2", "v3">>
VariantIds == Range(VariantOrder)
ProductOf(v) == IF v = "v3" THEN ProductGid("2") ELSE ProductGid("1")
VariantsOf(p) == {v \in VariantIds : ProductOf(v) = p}

\* the largest LIMIT a search passes
MaxLimit == 1
\* the longest string the normalizer is applied to, example values apart
MaxLen == 3

VARIABLES
  index,    \* table variant_lookups: a set of rows
  last,     \* the most recent write applied to variant_lookups
  ret,      \* what the most recent call of the store or of a route returned
  jobs,     \* table sync_status: a sequence of rows, the row id is the position
  syncs,    \* the runFullSync tasks, by job id
  hook,     \* the products/update deliveries being ingested
  norm,     \* the normalizer applied on its own: input and results
  del,      \* the products/delete delivery being ingested
  res,      \* the HTTP responses sent to sync triggers and webhook deliveries
  bulk,     \* the bulk-export parser applied on its own: lines and results
  poll,     \* the polling of a bulk operation: attempts and outcome
  paths     \* two producers applied to one upstream state: the rows of each

vars == <<index, last, ret, jobs, syncs, hook, norm, del, res, bulk, poll, paths>>

\* ---------------------------------------------------------- index store

\* The row upsertVariant writes for a variant: mpn_normalized is computed
\* from the mpn of the same call.
RowOf(variant) ==
  [variant_id     |-> variant.variant_id,
   product_id     |-> variant.product_id,
   product_handle |-> variant.product_handle,
   product_title  |-> variant.product_title,
   variant_title  |-> variant.variant_title,
   image_url      |-> variant.image_url,
   mpn            |-> variant.mpn,
   mpn_normalized |-> normalizeMpn(variant.mpn),
   sku            |-> variant.sku,
   price          |-> variant.price]

\* A plausible slip: INSERT OR IGNORE, so that an existing row stays as it is.
upsertVariant_insertOrIgnore(idx, variant) ==
  IF \E r \in idx : r.variant_id = variant.variant_id THEN idx
  ELSE idx \cup {RowOf(variant)}

\* A plausible slip: ON CONFLICT DO UPDATE without mpn_normalized in its SET
\* list, so that an existing row keeps the key of its old mpn.
upsertVariant_staleKey(idx, variant) ==
  LET old == {r \in idx : r.variant_id = variant.variant_id}
      new == RowOf(variant)
  IN  (idx \ old) \cup
      (IF old = {} THEN {new}
       ELSE {[new EXCEPT !.mpn_normalized = r.mpn_normalized] : r \in old})

\* INSERT ... ON CONFLICT(variant_id) DO UPDATE SET <every column>
upsertVariant(idx, variant) ==
  {r \in idx : r.variant_id # variant.variant_id} \cup {RowOf(variant)}

\* A plausible slip: the statement takes the variant's whole product along.
deleteVariant_productWide(idx, variantId) ==
  {r \in idx : \A x \in idx : x.variant_id = variantId => r.product_id # x.product_id}

\* A plausible slip: the statement filters on the wrong column.
deleteVariant_wrongColumn(idx, variantId) ==
  {r \in idx : r.product_id # variantId}

\* DELETE FROM variant_lookups WHERE variant_id = ?
deleteVariant(idx, variantId) == {r \in idx : r.variant_id # variantId}

\* A plausible slip: the product id compared with the variant_id column.
deleteProductVariants_wrongColumn(idx, productId) ==
  {r \in idx : r.variant_id # productId}

\* DELETE FROM variant_lookups WHERE product_id = ?
deleteProductVariants(idx, productId) == {r \in idx : r.product_id # productId}

\* A plausible slip: a leftover WHERE clause that spares the keyed rows.
clearIndex_keyedRowsKept(idx) == {r \in idx : ~Falsy(r.mpn_normalized)}

\* DELETE FROM variant_lookups
clearIndex(idx) == {}

\* A plausible slip: LIKE ? || '%' instead of =
Matching_prefix(idx, normalized) ==
  {r \in idx : /\ r.mpn_normalized # Null
               /\ Len(r.mpn_normalized) >= Len(normalized)
               /\ SubSeq(r.mpn_normalized, 1, Len(normalized)) = normalized}

\* WHERE mpn_normalized = ?
Matching(idx, normalized) == {r \in idx : r.mpn_normalized = normalized}

\* the columns searchByMpn selects: every column but mpn_normalized
Selected(r) ==
  [variant_id     |-> r.variant_id,
   product_id     |-> r.product_id,
   product_handle |-> r.product_handle,
   product_title  |-> r.product_title,
   variant_title  |-> r.variant_title,
   image_url      |-> r.image_url,
   mpn            |-> r.mpn,
   sku            |-> r.sku,
   price          |-> r.price]

Min(a, b) == IF a < b THEN a ELSE b

\* A plausible slip: the statement without its LIMIT clause.
Limited_unbounded(rows, limit) == {rows}

\* LIMIT ?: any limit of the matching rows, the order being the engine's own
Limited(rows, limit) ==
  {sub \in SUBSET rows : Cardinality(sub) = Min(limit, Cardinality(rows))}

\* A plausible slip: the length test left out of the guard.
ShortKey_emptyOnly(searchTerm) == Falsy(normalizeMpn(searchTerm))

\* !normalized || normalized.length < 2: searchByMpn returns [] before any
\* statement is issued.
ShortKey(searchTerm) ==
  LET normalized == normalizeMpn(searchTerm)
  IN  Falsy(normalized) \/ Len(normalized) < 2

\* The result sets searchByMpn(searchTerm, limit) can resolve to.
searchByMpn(idx, searchTerm, limit) ==
  IF ShortKey(searchTerm)
  THEN {{}}
  ELSE {{Selected(r) : r \in sub} :
          sub \in Limited(Matching(idx, normalizeMpn(searchTerm)), limit)}

\* SELECT COUNT(*), COUNT(DISTINCT product_id), COUNT(mpn)
getIndexStats(idx) ==
  [total_variants    |-> Cardinality(idx),
   total_products    |-> Cardinality({r.product_id : r \in idx}),
   variants_with_mpn |-> Cardinality({r \in idx : r.mpn # Null})]

\* ------------------------------------------------------ upstream catalog

\* A display string of the catalog: what it names, of which entity, in which
\* revision of the upstream data.
Text(what, id, rev) == <<what, id, ToString(rev)>>

\* One variant node of a GraphQL response.  image and metafield are nullable
\* objects read only through ?.url and ?.value: the node carries that value,
\* Null when the object is null.
VariantNode(v, rev, imageUrl, value) ==
  [id        |-> v,
   title     |-> Text("variant", v, rev),
   sku       |-> Text("sku", v, rev),
   price     |-> Text("price", v, rev),
   image     |-> [url |-> imageUrl],
   metafield |-> [value |-> value]]

\* The variant lists the catalog can hold for a product: any of its variants,
\* in the catalog's order, each with any image and metafield value of dom,
\* the range of upstream data a specification draws from.
VariantLists(p, rev, dom) ==
  UNION {LET ids == SelectSeq(VariantOrder, LAMBDA v : v \in S)
         IN  {[i \in DOMAIN ids |->
                 VariantNode(ids[i], rev, img[ids[i]], val[ids[i]])] :
                img \in [S -> dom.images], val \in [S -> dom.values]} :
           S \in SUBSET (VariantsOf(p) \cap dom.variants)}

\* data.product of GetProductVariants, and one node of data.products.edges:
\* exists is FALSE for product: null.
ProductNodes(p, dom) ==
  UNION {{[exists         |-> e,
           id             |-> p,
           title          |-> Text("product", p, rev),
           handle         |-> Text("handle", p, rev),
           onlineStoreUrl |-> url,
           featuredImage  |-> [url |-> fimg],
           variants       |-> vs] :
            e \in dom.exists, url \in dom.storeUrls,
            fimg \in dom.images, vs \in VariantLists(p, rev, dom)} :
          rev \in dom.revs}

\* The body of a products/update or products/delete delivery.
Payloads(dom) ==
  {[id |-> n, title |-> Text("product", ProductGid(n), rev),
    handle |-> Text("handle", ProductGid(n), rev)] :
     n \in ProductNums, rev \in dom.revs}

\* metafield?.value || null
MpnOf(node) == IF Falsy(node.metafield.value) THEN Null ELSE node.metafield.value

\* fetchProductVariants: [] for a missing or unpublished product, otherwise
\* every variant node with its mpn and its product.
fetchProductVariants(product) ==
  IF ~product.exists \/ Falsy(product.onlineStoreUrl) THEN <<>>
  ELSE [i \in DOMAIN product.variants |->
          LET node == product.variants[i]
          IN  [id      |-> node.id,
               title   |-> node.title,
               sku     |-> node.sku,
               price   |-> node.price,
               image   |-> node.image,
               mpn     |-> MpnOf(node),
               product |-> [id            |-> product.id,
                            title         |-> product.title,
                            handle        |-> product.handle,
                            featuredImage |-> product.featuredImage]]]

\* ------------------------------------------------------ write history

\* A write: the statement, its target, the keys of the rows a delete was aimed
\* at, this.changes, and whether the write before it was the same statement
\* on the same target.
NoWrite ==
  [op |-> "none", variant_id |-> "", product_id |-> "", mpn |-> Null,
   hadKeys |-> {}, changes |-> 0, again |-> FALSE]

\* What a route answered: the request, the status, the body, and reads, the
\* number of statements the call issued against variant_lookups.
NoRet ==
  [op |-> "none", q |-> Null, limit |-> 0, status |-> 0, rows |-> {},
   total_variants |-> 0, reads |-> 0]

\* A write of variant_lookups.  With obs the write is remembered in last and
\* the previous call's result is forgotten; without, the history is not kept.
Write(newIndex, descr, obs) ==
  /\ index' = newIndex
  /\ IF obs
     THEN /\ last' = [descr EXCEPT !.again = /\ last.op = descr.op
                                             /\ last.variant_id = descr.variant_id
                                             /\ last.product_id = descr.product_id]
          /\ ret' = NoRet
     ELSE UNCHANGED <<last, ret>>

Upserted(variant) ==
  [NoWrite EXCEPT !.op = "upsertVariant", !.variant_id = variant.variant_id,
                  !.product_id = variant.product_id, !.mpn = variant.mpn,
                  !.changes = 1]

\* A delete: the keys of the rows it was aimed at, and this.changes, the number
\* of rows it removed.
Removed(op, variantId, productId, aimedAt, newIndex) ==
  [NoWrite EXCEPT !.op = op, !.variant_id = variantId, !.product_id = productId,
                  !.hadKeys = {r.mpn_normalized : r \in aimedAt},
                  !.changes = Cardinality(index \ newIndex)]

\* ------------------------------------------------------------- webhooks

\* the most products/update deliveries ingested at once
MaxHooks == 1

NoPayload == [id |-> "", title |-> Null, handle |-> Null]

\* One run of the products/update handler: the payload, the fetched variants,
\* the position of the loop in them, and the loop's two counters.
IdleHook ==
  [pc |-> "idle", product |-> NoPayload, variants |-> <<>>, next |-> 1,
   updated |-> 0, removed |-> 0]

\* The X-Shopify-Hmac-Sha256 header of a delivery: absent, the digest of the
\* body, another digest, or a value of another length than a digest.
Hmacs == {"absent", "valid", "forged", "malformed"}

\* A plausible slip: the digests compared as far as the shorter one reaches, so
\* that a header of another length passes.
verifyWebhook_prefixCompared(hmac) ==
  IF hmac \in {"valid", "malformed"} THEN "verified" ELSE "rejected"

\* verifyWebhook: FALSE without a header, timingSafeEqual otherwise, which
\* throws on buffers of different lengths.
verifyWebhook(hmac) ==
  CASE hmac = "absent"    -> "rejected"
    [] hmac = "valid"     -> "verified"
    [] hmac = "forged"    -> "rejected"
    [] hmac = "malformed" -> "thrown"

\* Nothing was answered yet.
NoResponse == [hmac |-> "none", status |-> 0]

\* A plausible slip: the acknowledgment sent after the ingestion, not before.
WebhookStatus_afterIngestion(verdict) ==
  IF verdict = "rejected" THEN {401} ELSE {0}

\* The status a webhook route answers with before anything is ingested: 200
\* for a verified delivery, 401 for a rejected one.  When verifyWebhook throws,
\* the handler answers nothing (status 0); whether the framework turns the
\* rejected promise into a 500 is its own affair.
WebhookStatus(verdict) ==
  CASE verdict = "verified" -> {200}
    [] verdict = "rejected" -> {401}
    [] verdict = "thrown"   -> {0, 500}

\* The responses sent: to each POST /api/sync/full that created a job, by job
\* id; whether some POST /api/sync/full was answered 500; to the delivery
\* last received by each products/update worker and by the products/delete
\* route, with the kind of signature it carried.
NoResponses ==
  [full    |-> <<>>,
   refused |-> FALSE,
   hook    |-> [h \in 1..MaxHooks |-> NoResponse],
   del     |-> NoResponse]

\* res.json / res.status(..).send: the responses are recorded where dom asks
\* for it.
Respond(dom, responses) == res' = IF dom.responses THEN responses ELSE res

\* A plausible slip: the sku bound where the mpn belongs.
HookVariant_skuAsMpn(product, variant) ==
  [variant_id     |-> variant.id,
   product_id     |-> ProductGid(product.id),
   product_handle |-> product.handle,
   product_title  |-> product.title,
   variant_title  |-> variant.title,
   image_url      |-> IF Falsy(variant.image.url) THEN Null ELSE variant.image.url,
   mpn            |-> variant.sku,
   sku            |-> variant.sku,
   price          |-> variant.price]

\* What processProductUpdate upserts for a variant with an mpn.
HookVariant(product, variant) ==
  [variant_id     |-> variant.id,
   product_id     |-> ProductGid(product.id),
   product_handle |-> product.handle,
   product_title  |-> product.title,
   variant_title  |-> variant.title,
   image_url      |-> IF Falsy(variant.image.url) THEN Null ELSE variant.image.url,
   mpn            |-> variant.mpn,
   sku            |-> variant.sku,
   price          |-> variant.price]

\* POST /webhook/products-update up to the first await of processProductUpdate:
\* an unverified delivery is answered 401 and changes nothing, a verified one
\* is acknowledged and its ingestion starts.
UpdateWebhook(h, dom) ==
  /\ hook[h].pc \in {"idle", "logged", "caught"}
  /\ \E body \in Payloads(dom), hmac \in Hmacs :
       /\ hook' = IF verifyWebhook(hmac) = "verified"
                  THEN [hook EXCEPT ![h] = [IdleHook EXCEPT !.pc = "fetch",
                                                            !.product = body]]
                  ELSE hook
       /\ \E status \in WebhookStatus(verifyWebhook(hmac)) :
            Respond(dom, [res EXCEPT !.hook[h] = [hmac |-> hmac, status |-> status]])
  /\ UNCHANGED <<index, last, ret, jobs, syncs, norm, del, bulk, poll, paths>>

\* A plausible slip: the else branch of the loop forgotten, every fetched
\* variant upserted.
HookWrite_noDelete(idx, product, variant) ==
  upsertVariant(idx, HookVariant(product, variant))

\* A plausible slip: each pass drops the rows the product has for other
\* variants, as if the pass stood for the product's whole state.
HookWrite_replacesProduct(idx, product, variant) ==
  LET kept == {r \in idx : \/ r.product_id # ProductGid(product.id)
                           \/ r.variant_id = variant.id}
  IN  IF ~Falsy(variant.mpn)
      THEN upsertVariant(kept, HookVariant(product, variant))
      ELSE deleteVariant(kept, variant.id)

\* The write of one pass of the loop of processProductUpdate.
HookWrite(idx, product, variant) ==
  IF ~Falsy(variant.mpn)
  THEN upsertVariant(idx, HookVariant(product, variant))
  ELSE deleteVariant(idx, variant.id)

HookDescr(idx, product, variant) ==
  IF ~Falsy(variant.mpn)
  THEN Upserted(HookVariant(product, variant))
  ELSE Removed("deleteVariant", variant.id, "",
               {r \in idx : r.variant_id = variant.id},
               deleteVariant(idx, variant.id))

\* A plausible slip: an empty answer of the catalog taken as "the product is
\* gone", its rows deleted.
HookFetch_emptyMeansGone(h, dom) ==
  /\ hook[h].pc = "fetch"
  /\ \/ \E product \in ProductNodes(ProductGid(hook[h].product.id), dom) :
          LET variants == fetchProductVariants(product)
          IN  /\ hook' = [hook EXCEPT ![h].variants = variants,
                                      ![h].pc = IF variants = <<>> THEN "logged"
                                                ELSE "loop"]
              /\ index' = IF variants = <<>>
                          THEN deleteProductVariants(index, ProductGid(hook[h].product.id))
                          ELSE index
     \/ /\ dom.failures
        /\ hook' = [hook EXCEPT ![h].pc = "caught"]
        /\ UNCHANGED index
  /\ UNCHANGED <<last, ret, jobs, syncs, norm, del, res, bulk, poll, paths>>

\* await shopifyService.fetchProductVariants(...): the catalog answers with the
\* product's current state, or the request fails and the catch logs it.  With
\* no variant to pass over, the counters are logged at once.
HookFetch(h, dom) ==
  /\ hook[h].pc = "fetch"
  /\ \/ \E product \in ProductNodes(ProductGid(hook[h].product.id), dom) :
          LET variants == fetchProductVariants(product)
          IN  hook' = [hook EXCEPT ![h].variants = variants,
                                   ![h].pc = IF variants = <<>> THEN "logged"
                                             ELSE "loop"]
     \/ /\ dom.failures
        /\ hook' = [hook EXCEPT ![h].pc = "caught"]
  /\ UNCHANGED <<index, last, ret, jobs, syncs, norm, del, res, bulk, poll, paths>>

\* One pass of the loop: await db.upsertVariant or await db.deleteVariant, and
\* after the last one the counters are logged.  A rejected statement leaves the
\* loop through the catch.
HookStep(h, dom, obs) ==
  /\ hook[h].pc = "loop"
  /\ LET variant == hook[h].variants[hook[h].next]
     IN  \/ /\ Write(HookWrite(index, hook[h].product, variant),
                     HookDescr(index, hook[h].product, variant), obs)
            /\ hook' = [hook EXCEPT
                 ![h].next = @ + 1,
                 ![h].updated = IF ~Falsy(variant.mpn) THEN @ + 1 ELSE @,
                 ![h].removed = IF ~Falsy(variant.mpn) THEN @ ELSE @ + 1,
                 ![h].pc = IF hook[h].next = Len(hook[h].variants)
                           THEN "logged" ELSE "loop"]
         \/ /\ dom.failures
            /\ hook' = [hook EXCEPT ![h].pc = "caught"]
            /\ UNCHANGED <<index, last, ret>>
  /\ UNCHANGED <<jobs, syncs, norm, del, res, bulk, poll, paths>>

\* One run of the products/delete handler: the id of the payload, and with
\* the write history what the handler logged in the end.
IdleDelete == [pc |-> "idle", id |-> "", outcome |-> "none"]

\* POST /webhook/products-delete up to its await: an unverified delivery
\* changes nothing, a verified one is acknowledged and the statement is issued.
DeleteWebhook(dom) ==
  /\ del.pc = "idle"
  /\ \E body \in Payloads(dom), hmac \in Hmacs :
       /\ del' = IF verifyWebhook(hmac) = "verified"
                 THEN [IdleDelete EXCEPT !.pc = "delete", !.id = body.id]
                 ELSE del
       /\ \E status \in WebhookStatus(verifyWebhook(hmac)) :
            Respond(dom, [res EXCEPT !.del = [hmac |-> hmac, status |-> status]])
  /\ UNCHANGED <<index, last, ret, jobs, syncs, hook, norm, bulk, poll, paths>>

\* A plausible slip: a statement that removed no row treated as a failure.
DeleteLogged_nothingIsAnError(changes) ==
  IF changes = 0 THEN "caught" ELSE "logged"

\* console.log(`Deleted ${result.changes} variants ...`): whatever the count
DeleteLogged(changes) == "logged"

\* await db.deleteProductVariants(productGid): the product's rows are deleted
\* and the count is logged, or the statement is rejected and the catch logs it.
DeleteStep(dom, obs) ==
  /\ del.pc = "delete"
  /\ LET productGid == ProductGid(del.id)
         removed == Removed("deleteProductVariants", "", productGid,
                            {r \in index : r.product_id = productGid},
                            deleteProductVariants(index, productGid))
     IN  \/ /\ Write(deleteProductVariants(index, productGid), removed, obs)
            /\ del' = [IdleDelete EXCEPT !.outcome =
                         IF obs THEN DeleteLogged(removed.changes) ELSE "none"]
         \/ /\ dom.failures
            /\ del' = [IdleDelete EXCEPT !.outcome =
                         IF obs THEN "caught" ELSE "none"]
            /\ UNCHANGED <<index, last, ret>>
  /\ UNCHANGED <<jobs, syncs, hook, norm, res, bulk, poll, paths>>

\* POST /api/sync/clear
ClearRoute(dom, obs) ==
  /\ \/ Write(clearIndex(index),
              Removed("clearIndex", "", "", index, clearIndex(index)), obs)
     \/ dom.failures /\ UNCHANGED <<index, last, ret>>
  /\ UNCHANGED <<jobs, syncs, hook, norm, del, res, bulk, poll, paths>>

\* ---------------------------------------------------------- job tracker

\* the most full syncs started, and the most pages the catalog's listing has,
\* when syncs, webhooks and clears interleave
MaxJobs == 2
MaxPages == 1

\* INSERT INTO sync_status (shop, sync_type, status) VALUES (?, ?, 'running'):
\* the counters take their default 0, error_message and completed_at are NULL.
createSyncJob(js) ==
  Append(js, [status |-> "running", processed_variants |-> 0,
              indexed_variants |-> 0, error_message |-> Null,
              completed_at |-> Null])

\* A plausible slip: completed_at stamped by every update of the row.
updateSyncJob_stampsCompletion(js, id, processed, indexed) ==
  [js EXCEPT ![id].processed_variants = processed,
             ![id].indexed_variants = indexed,
             ![id].completed_at = <<"CURRENT_TIMESTAMP">>]

\* UPDATE sync_status SET processed_variants = ?, indexed_variants = ? WHERE id = ?
updateSyncJob(js, id, processed, indexed) ==
  [js EXCEPT ![id].processed_variants = processed,
             ![id].indexed_variants = indexed]

\* A plausible slip: error_message left out of the SET list.
completeSyncJob_messageDropped(js, id, status, indexedVariants, errorMessage) ==
  [js EXCEPT ![id].status = status,
             ![id].indexed_variants = indexedVariants,
             ![id].completed_at = <<"CURRENT_TIMESTAMP">>]

\* A plausible slip: the count bound to the statement is not the caller's.
completeSyncJob_countReset(js, id, status, indexedVariants, errorMessage) ==
  [js EXCEPT ![id].status = status,
             ![id].indexed_variants = 0,
             ![id].error_message = errorMessage,
             ![id].completed_at = <<"CURRENT_TIMESTAMP">>]

\* UPDATE sync_status SET status = ?, indexed_variants = ?, error_message = ?,
\* completed_at = CURRENT_TIMESTAMP WHERE id = ?
completeSyncJob(js, id, status, indexedVariants, errorMessage) ==
  [js EXCEPT ![id].status = status,
             ![id].indexed_variants = indexedVariants,
             ![id].error_message = errorMessage,
             ![id].completed_at = <<"CURRENT_TIMESTAMP">>]

\* ------------------------------------------------------------ full sync

\* the message of the error a failed request to the catalog throws
FetchFailed == <<"GraphQL request failed">>

\* The pages the listing can return: up to dom.pageLen product nodes.
Pages(dom) ==
  LET nodes == UNION {ProductNodes(p, dom) : p \in ProductIds}
  IN  UNION {[1..n -> nodes] : n \in 0..dom.pageLen}

\* the variants of one product node that carry an mpn, with their product
VariantsWithMpn(product) ==
  LET kept == SelectSeq(product.variants, LAMBDA node : ~Falsy(MpnOf(node)))
  IN  [i \in DOMAIN kept |->
         [id      |-> kept[i].id,
          title   |-> kept[i].title,
          sku     |-> kept[i].sku,
          price   |-> kept[i].price,
          image   |-> kept[i].image,
          mpn     |-> MpnOf(kept[i]),
          product |-> [id            |-> product.id,
                       title         |-> product.title,
                       handle        |-> product.handle,
                       featuredImage |-> product.featuredImage]]]

\* fetchVariantsWithMetafield: the variants with an mpn of the page's products
\* that are published to the online store.
RECURSIVE fetchVariantsWithMetafield(_)
fetchVariantsWithMetafield(edges) ==
  IF edges = <<>> THEN <<>>
  ELSE (IF Falsy(Head(edges).onlineStoreUrl) THEN <<>>
        ELSE VariantsWithMpn(Head(edges)))
       \o fetchVariantsWithMetafield(Tail(edges))

\* v.image?.url || v.product.featuredImage?.url || null
SyncImage(v) ==
  IF ~Falsy(v.image.url) THEN v.image.url
  ELSE IF ~Falsy(v.product.featuredImage.url) THEN v.product.featuredImage.url
  ELSE Null

\* the record runFullSync makes of a fetched variant
SyncVariant(v) ==
  [variant_id     |-> v.id,
   product_id     |-> v.product.id,
   product_handle |-> v.product.handle,
   product_title  |-> v.product.title,
   variant_title  |-> v.title,
   image_url      |-> SyncImage(v),
   mpn            |-> v.mpn,
   sku            |-> v.sku,
   price          |-> v.price]

\* bulkUpsertVariants passes over the variants without an mpn: they are
\* counted as skipped and no statement is awaited for them.
RECURSIVE SkipWithoutMpn(_)
SkipWithoutMpn(variants) ==
  IF variants # <<>> /\ Falsy(Head(variants).mpn)
  THEN SkipWithoutMpn(Tail(variants))
  ELSE variants

\* The locals of a run of runFullSync and of the bulkUpsertVariants it awaits;
\* upserted, the number of upsert statements of the run that resolved; and
\* seen, the variants the listing returned to the run so far, page after page,
\* kept where dom asks for it.
NewSync ==
  [pc |-> "clear", totalProcessed |-> 0, totalIndexed |-> 0, pageCount |-> 0,
   hasNextPage |-> TRUE, variants |-> <<>>, length |-> 0, indexed |-> 0,
   error |-> Null, upserted |-> 0, seen |-> <<>>]

\* A plausible slip: a statement that throws after the completing one, still
\* inside the try, so that the run goes on into the catch.
EndedSync_stillInTry ==
  [pc |-> "catch", totalProcessed |-> 0, totalIndexed |-> 0, pageCount |-> 0,
   hasNextPage |-> TRUE, variants |-> <<>>, length |-> 0, indexed |-> 0,
   error |-> <<"TypeError">>, upserted |-> 0, seen |-> <<>>]

\* runFullSync has returned or thrown: its locals are gone.
EndedSync == [NewSync EXCEPT !.pc = "done"]

\* A plausible slip: the totals declared inside the try, so that the catch
\* reads fresh ones.
Thrown_totalsLost(task, message) ==
  [task EXCEPT !.pc = "catch", !.error = message, !.variants = <<>>,
               !.totalProcessed = 0, !.totalIndexed = 0]

\* The task leaves the try block with an error: the catch finalizes the job.
Thrown(task, message) ==
  [task EXCEPT !.pc = "catch", !.error = message, !.variants = <<>>]

\* A plausible slip: a return inside the loop, so that the run ends after a
\* page without finalizing its job.
BulkReturned_returnsEarly(task) ==
  [task EXCEPT !.pc = "done",
               !.totalProcessed = @ + task.length,
               !.totalIndexed = @ + task.indexed,
               !.variants = <<>>]

\* bulkUpsertVariants has returned: the totals are added up and the progress
\* update is awaited.
BulkReturned(task) ==
  [task EXCEPT !.pc = "progress",
               !.totalProcessed = @ + task.length,
               !.totalIndexed = @ + task.indexed,
               !.variants = <<>>]

\* A plausible slip: runFullSync awaited, so that nothing is answered before
\* the sync has ended.
FullSyncStarted_awaited(jobId) == [status |-> 0, success |-> FALSE, jobId |-> jobId]

\* res.json({success: true, jobId, ...}) right after runFullSync was started
FullSyncStarted(jobId) == [status |-> 200, success |-> TRUE, jobId |-> jobId]

\* A plausible slip: a trigger refused (409) while a job is running.
StartFullSync_serialized(dom) ==
  /\ Len(jobs) < dom.maxJobs
  /\ \A j \in DOMAIN jobs : jobs[j].status # "running"
  /\ jobs' = createSyncJob(jobs)
  /\ syncs' = Append(syncs, NewSync)
  /\ Respond(dom, [res EXCEPT !.full = Append(@, FullSyncStarted(Len(jobs')))])
  /\ UNCHANGED <<index, last, ret, hook, norm, del, bulk, poll, paths>>

\* POST /api/sync/full: the job row is created and runFullSync is started
\* without being awaited.
StartFullSync(dom) ==
  /\ Len(jobs) < dom.maxJobs
  /\ \/ /\ jobs' = createSyncJob(jobs)
        /\ syncs' = Append(syncs, NewSync)
        /\ Respond(dom, [res EXCEPT !.full = Append(@, FullSyncStarted(Len(jobs')))])
     \/ /\ dom.failures
        /\ Respond(dom, [res EXCEPT !.refused = TRUE])
        /\ UNCHANGED <<jobs, syncs>>
  /\ UNCHANGED <<index, last, ret, hook, norm, del, bulk, poll, paths>>

\* A plausible slip: the sync written as an incremental merge, the index not
\* cleared first.
SyncClear_merge(j, dom, obs) ==
  /\ syncs[j].pc = "clear"
  /\ syncs' = [syncs EXCEPT ![j].pc = "fetch"]
  /\ UNCHANGED <<index, last, ret, jobs, hook, norm, del, res, bulk, poll, paths>>

\* await db.clearIndex()
SyncClear(j, dom, obs) ==
  /\ syncs[j].pc = "clear"
  /\ \/ /\ Write(clearIndex(index),
                 Removed("clearIndex", "", "", index, clearIndex(index)), obs)
        /\ syncs' = [syncs EXCEPT ![j].pc = "fetch"]
     \/ /\ dom.failures
        /\ syncs' = [syncs EXCEPT ![j] = Thrown(@, <<"SQLITE_ERROR">>)]
        /\ UNCHANGED <<index, last, ret>>
  /\ UNCHANGED <<jobs, hook, norm, del, res, bulk, poll, paths>>

\* await shopifyService.fetchVariantsWithMetafield(..., cursor), the map over
\* its variants, and bulkUpsertVariants up to its first awaited statement.
SyncFetch(j, dom) ==
  /\ syncs[j].pc = "fetch"
  /\ \/ \E edges \in Pages(dom),
           hasNextPage \in (IF syncs[j].pageCount + 1 < dom.maxPages
                            THEN BOOLEAN ELSE {FALSE}) :
          LET variants == fetchVariantsWithMetafield(edges)
              transformedVariants ==
                [i \in DOMAIN variants |-> SyncVariant(variants[i])]
              task == [syncs[j] EXCEPT !.pageCount = @ + 1,
                                       !.hasNextPage = hasNextPage,
                                       !.length = Len(variants),
                                       !.indexed = 0,
                                       !.variants = SkipWithoutMpn(transformedVariants),
                                       !.seen = IF dom.seen THEN @ \o variants ELSE @,
                                       !.pc = "bulk"]
          IN  syncs' = [syncs EXCEPT ![j] =
                          IF task.variants = <<>> THEN BulkReturned(task) ELSE task]
     \/ /\ dom.failures
        /\ syncs' = [syncs EXCEPT ![j] =
                       Thrown([@ EXCEPT !.pageCount = @ + 1], <<"GraphQL request failed">>)]
  /\ UNCHANGED <<index, last, ret, jobs, hook, norm, del, res, bulk, poll, paths>>

\* A plausible slip: indexed counts the rows that were inserted, an upsert
\* over an existing row not counted.
SyncUpsert_countsNewRows(j, dom, obs) ==
  /\ syncs[j].pc = "bulk"
  /\ LET variant == Head(syncs[j].variants)
         isNew == \A r \in index : r.variant_id # variant.variant_id
         task == [syncs[j] EXCEPT !.indexed = IF isNew THEN @ + 1 ELSE @,
                                  !.upserted = @ + 1,
                                  !.variants = SkipWithoutMpn(Tail(@))]
     IN  \/ /\ Write(upsertVariant(index, variant), Upserted(variant), obs)
            /\ syncs' = [syncs EXCEPT ![j] =
                           IF task.variants = <<>> THEN BulkReturned(task) ELSE task]
         \/ /\ dom.failures
            /\ syncs' = [syncs EXCEPT ![j] = Thrown(@, <<"SQLITE_ERROR">>)]
            /\ UNCHANGED <<index, last, ret>>
  /\ UNCHANGED <<jobs, hook, norm, del, res, bulk, poll, paths>>

\* await this.upsertVariant(variant) inside bulkUpsertVariants
SyncUpsert(j, dom, obs) ==
  /\ syncs[j].pc = "bulk"
  /\ LET variant == Head(syncs[j].variants)
         task == [syncs[j] EXCEPT !.indexed = @ + 1,
                                  !.upserted = @ + 1,
                                  !.variants = SkipWithoutMpn(Tail(@))]
     IN  \/ /\ Write(upsertVariant(index, variant), Upserted(variant), obs)
            /\ syncs' = [syncs EXCEPT ![j] =
                           IF task.variants = <<>> THEN BulkReturned(task) ELSE task]
         \/ /\ dom.failures
            /\ syncs' = [syncs EXCEPT ![j] = Thrown(@, <<"SQLITE_ERROR">>)]
            /\ UNCHANGED <<index, last, ret>>
  /\ UNCHANGED <<jobs, hook, norm, del, res, bulk, poll, paths>>

\* await db.updateSyncJob(jobId, {processed_variants, indexed_variants}), then
\* the loop goes on to the next page or ends.
SyncProgress(j, dom) ==
  /\ syncs[j].pc = "progress"
  /\ \/ /\ jobs' = updateSyncJob(jobs, j, syncs[j].totalProcessed,
                                 syncs[j].totalIndexed)
        /\ syncs' = [syncs EXCEPT ![j].pc =
                       IF syncs[j].hasNextPage THEN "fetch" ELSE "complete"]
     \/ /\ dom.failures
        /\ syncs' = [syncs EXCEPT ![j] = Thrown(@, <<"SQLITE_ERROR">>)]
        /\ UNCHANGED jobs
  /\ UNCHANGED <<index, last, ret, hook, norm, del, res, bulk, poll, paths>>

\* await db.completeSyncJob(jobId, 'completed', totalIndexed)
SyncComplete(j, dom) ==
  /\ syncs[j].pc = "complete"
  /\ \/ /\ jobs' = completeSyncJob(jobs, j, "completed",
                                   syncs[j].totalIndexed, Null)
        /\ syncs' = [syncs EXCEPT ![j] = EndedSync]
     \/ /\ dom.failures
        /\ syncs' = [syncs EXCEPT ![j] = Thrown(@, <<"SQLITE_ERROR">>)]
        /\ UNCHANGED jobs
  /\ UNCHANGED <<index, last, ret, hook, norm, del, res, bulk, poll, paths>>

\* catch (error): await db.completeSyncJob(jobId, 'failed', totalIndexed,
\* error.message), then the error is thrown to the caller, which logs it.
SyncCatch(j, dom) ==
  /\ syncs[j].pc = "catch"
  /\ \/ jobs' = completeSyncJob(jobs, j, "failed", syncs[j].totalIndexed,
                                syncs[j].error)
     \/ dom.failures /\ UNCHANGED jobs
  /\ syncs' = [syncs EXCEPT ![j] = EndedSync]
  /\ UNCHANGED <<index, last, ret, hook, norm, del, res, bulk, poll, paths>>

\* --------------------------------------------------------------- lookup

\* the limit of a search request that names none
DefaultLimit == 10

\* The entry the search route answers with for a row.
Match(row) ==
  [productHandle |-> row.product_handle,
   variantId     |-> row.variant_id,
   productTitle  |-> row.product_title,
   variantTitle  |-> row.variant_title,
   mpn           |-> row.mpn,
   sku           |-> row.sku,
   image         |-> row.image_url,
   price         |-> row.price]

\* GET /api/search?q=..&limit=..: [] for a missing or short q, otherwise the
\* rows of searchByMpn(q.trim(), limit) in the caller's format, or 500 when the
\* statement is rejected.
SearchRoute(dom, queries, limits) ==
  /\ \E q \in queries, limit \in limits :
       LET request == [NoRet EXCEPT !.op = "search", !.q = q, !.limit = limit]
           reads == IF ShortKey(trim(q)) THEN 0 ELSE 1
       IN  IF Falsy(q) \/ Len(trim(q)) < 2
           THEN ret' = [request EXCEPT !.status = 200]
           ELSE \/ \E rows \in searchByMpn(index, trim(q), limit) :
                     ret' = [request EXCEPT !.status = 200, !.reads = reads,
                                            !.rows = {Match(r) : r \in rows}]
                \/ /\ dom.failures
                   /\ reads > 0
                   /\ ret' = [request EXCEPT !.status = 500, !.reads = reads]
  /\ UNCHANGED <<index, last, jobs, syncs, hook, norm, del, res, bulk, poll, paths>>

\* GET /api/search/stats
StatsRoute ==
  /\ ret' = [NoRet EXCEPT !.op = "stats", !.status = 200, !.reads = 1,
                          !.total_variants = getIndexStats(index).total_variants]
  /\ UNCHANGED <<index, last, jobs, syncs, hook, norm, del, res, bulk, poll, paths>>

\* ---------------------------------------------------------- bulk export

\* the most lines of a bulk-export result
MaxLines == 3

\* One line of the JSONL text of a bulk-export result: blank, not JSON, or an
\* object, of which the parser reads id, __parentId and the fields it copies.
NoLine ==
  [json |-> "blank", id |-> "", parentId |-> "", title |-> Null, handle |-> Null,
   featuredImage |-> [url |-> Null], sku |-> Null, price |-> Null,
   image |-> [url |-> Null], metafield |-> [value |-> Null]]

ProductLine(p) ==
  [NoLine EXCEPT !.json = "object", !.id = p,
                 !.title = Text("product", p, 1), !.handle = Text("handle", p, 1)]

VariantLine(v, parent, value) ==
  [NoLine EXCEPT !.json = "object", !.id = v, !.parentId = parent,
                 !.title = Text("variant", v, 1), !.sku = Text("sku", v, 1),
                 !.price = Text("price", v, 1), !.metafield = [value |-> value]]

\* The lines a result is made of: the two products, a variant of the first
\* with and without the attribute, a variant of the second, an object that is
\* neither, a blank line and a line that is not JSON.
BulkLines ==
  {ProductLine(p) : p \in ProductIds}
    \cup {VariantLine("v1", ProductOf("v1"), value) : value \in {Null, Mpn7665Dash}}
    \cup {VariantLine("v3", ProductOf("v3"), Mpn7665Dash)}
    \cup {[NoLine EXCEPT !.json = "object", !.id = "gid://shopify/Collection/1"],
          NoLine,
          [NoLine EXCEPT !.json = "malformed"]}

BulkInputs == UNION {[1..n -> BulkLines] : n \in 0..MaxLines}

\* obj.id?.includes('/Product/')
IsProductLine(line) == line.json = "object" /\ line.id \in ProductIds

\* obj.id?.includes('/ProductVariant/')
IsVariantLine(line) == line.json = "object" /\ line.id \in VariantIds

\* The Map products after the first loop: by id, what the last line with that
\* id set.
BulkProducts(lines) ==
  LET at(p) == CHOOSE i \in DOMAIN lines :
                 /\ IsProductLine(lines[i]) /\ lines[i].id = p
                 /\ \A k \in DOMAIN lines :
                      (IsProductLine(lines[k]) /\ lines[k].id = p) => k <= i
  IN  [p \in {lines[i].id : i \in {k \in DOMAIN lines : IsProductLine(lines[k])}} |->
         [id            |-> lines[at(p)].id,
          title         |-> lines[at(p)].title,
          handle        |-> lines[at(p)].handle,
          featuredImage |-> lines[at(p)].featuredImage]]

\* The array variants after the first loop, in the order of the lines.
BulkVariants(lines) ==
  LET kept == SelectSeq(lines, IsVariantLine)
  IN  [i \in DOMAIN kept |->
         [id       |-> kept[i].id,
          parentId |-> kept[i].parentId,
          title    |-> kept[i].title,
          sku      |-> kept[i].sku,
          price    |-> kept[i].price,
          image    |-> kept[i].image,
          mpn      |-> MpnOf(kept[i])]]

\* A plausible slip: the variants without the attribute tested first, so that
\* an orphan without it is counted.
RECURSIVE BulkFilter_attributeFirst(_, _, _)
BulkFilter_attributeFirst(variants, products, acc) ==
  IF variants = <<>> THEN acc
  ELSE LET variant == Head(variants)
       IN  BulkFilter_attributeFirst(Tail(variants), products,
             IF Falsy(variant.mpn)
             THEN [acc EXCEPT !.skippedNoMpn = @ + 1]
             ELSE IF variant.parentId \notin DOMAIN products THEN acc
             ELSE [acc EXCEPT !.variants = Append(@,
                     [id      |-> variant.id,
                      title   |-> variant.title,
                      sku     |-> variant.sku,
                      price   |-> variant.price,
                      image   |-> variant.image,
                      mpn     |-> variant.mpn,
                      product |-> products[variant.parentId]])])

\* The second loop: a variant whose parent is not in products is passed over,
\* one without mpn is counted in skippedNoMpn, the others are returned with
\* their product.
RECURSIVE BulkFilter(_, _, _)
BulkFilter(variants, products, acc) ==
  IF variants = <<>> THEN acc
  ELSE LET variant == Head(variants)
       IN  BulkFilter(Tail(variants), products,
             IF variant.parentId \notin DOMAIN products THEN acc
             ELSE IF Falsy(variant.mpn)
             THEN [acc EXCEPT !.skippedNoMpn = @ + 1]
             ELSE [acc EXCEPT !.variants = Append(@,
                     [id      |-> variant.id,
                      title   |-> variant.title,
                      sku     |-> variant.sku,
                      price   |-> variant.price,
                      image   |-> variant.image,
                      mpn     |-> variant.mpn,
                      product |-> products[variant.parentId]])])

BulkIdle ==
  [stage |-> 0, lines |-> <<>>, variants |-> <<>>, skippedNoMpn |-> 0,
   thrown |-> FALSE]

\* A plausible slip: one loop over the lines, a variant looked up in the
\* products set by the lines before it.
downloadAndParseBulkResults_singlePass(lines) ==
  LET RECURSIVE upTo(_)
      upTo(n) ==
        IF n = 0 THEN BulkIdle
        ELSE BulkFilter(BulkVariants(<<lines[n]>>),
                        BulkProducts(SubSeq(lines, 1, n)), upTo(n - 1))
  IN  IF \E i \in DOMAIN lines : lines[i].json = "malformed"
      THEN [BulkIdle EXCEPT !.thrown = TRUE]
      ELSE upTo(Len(lines))

\* downloadAndParseBulkResults from the lines on: JSON.parse throws on a line
\* that is not JSON, otherwise the filtered variants are returned.
downloadAndParseBulkResults(lines) ==
  IF \E i \in DOMAIN lines : lines[i].json = "malformed"
  THEN [BulkIdle EXCEPT !.thrown = TRUE]
  ELSE BulkFilter(BulkVariants(lines), BulkProducts(lines), BulkIdle)

\* The parser applied to the lines of a result.
BulkParse ==
  /\ bulk.stage = 0
  /\ bulk' = [downloadAndParseBulkResults(bulk.lines) EXCEPT
                !.stage = 1, !.lines = bulk.lines]
  /\ UNCHANGED <<index, last, ret, jobs, syncs, hook, norm, del, res, poll, paths>>

\* pollBulkOperation: let maxAttempts = 120
maxAttempts == 120

\* The status a poll can find the bulk operation in.
BulkStatuses ==
  {"CREATED", "RUNNING", "CANCELING", "EXPIRED", "COMPLETED", "FAILED", "CANCELED"}

\* the messages of the errors pollBulkOperation throws itself
BulkFailed   == <<"Bulk operation failed">>
BulkCanceled == <<"Bulk operation was canceled">>
BulkTimedOut == <<"Bulk operation timed out">>

\* One call of pollBulkOperation: where it stands, its counter attempts, the
\* number of status queries it issued, the status the last answered query
\* found, and what it returned or threw; and of the bulkFetchVariants that
\* awaits it, the number of downloads it started and the variants it returned.
PollIdle ==
  [pc |-> "idle", attempts |-> 0, polls |-> 0, status |-> "none",
   url |-> Null, error |-> Null, downloads |-> 0, variants |-> <<>>]

\* A plausible slip: the test for CANCELED left out, the loop polling on.
PollOutcome_canceledUnhandled(status) ==
  CASE status = "COMPLETED" -> "return"
    [] status = "FAILED"    -> "failed"
    [] OTHER                -> "wait"

\* What the body of the loop does with op.status.
PollOutcome(status) ==
  CASE status = "COMPLETED" -> "return"
    [] status = "FAILED"    -> "failed"
    [] status = "CANCELED"  -> "canceled"
    [] OTHER                -> "wait"

\* One pass of the loop of pollBulkOperation: the status query, which can be
\* rejected or answer without a node, the tests of op.status, the wait, and
\* attempts++; when the loop condition fails after it, the timeout is thrown.
PollStep ==
  /\ poll.pc = "polling"
  /\ poll.attempts < maxAttempts
  /\ LET asked == [poll EXCEPT !.polls = @ + 1]
     IN  \/ \E error \in {FetchFailed, <<"TypeError">>} :
              poll' = [asked EXCEPT !.pc = "thrown", !.error = error]
         \/ \E status \in BulkStatuses, url \in {Null, <<"url">>} :
              LET found == [asked EXCEPT !.status = status]
              IN  poll' =
                    CASE PollOutcome(status) = "return" ->
                           [found EXCEPT !.pc = "returned", !.url = url]
                      [] PollOutcome(status) = "failed" ->
                           [found EXCEPT !.pc = "thrown", !.error = BulkFailed]
                      [] PollOutcome(status) = "canceled" ->
                           [found EXCEPT !.pc = "thrown", !.error = BulkCanceled]
                      [] PollOutcome(status) = "wait" ->
                           IF poll.attempts + 1 < maxAttempts
                           THEN [found EXCEPT !.attempts = @ + 1]
                           ELSE [found EXCEPT !.attempts = @ + 1, !.pc = "thrown",
                                              !.error = BulkTimedOut]
  /\ UNCHANGED <<index, last, ret, jobs, syncs, hook, norm, del, res, bulk, paths>>

\* the messages of the errors startBulkExport and downloadAndParseBulkResults
\* throw themselves, and of the one JSON.parse throws
BulkUserErrors == <<"Bulk operation errors">>
DownloadFailed == <<"Failed to download bulk results">>
SyntaxError == <<"SyntaxError">>

\* The results a download can yield: an empty text, a product with a variant
\* that carries the attribute, and a text with a line that is not JSON.
DownloadedResults ==
  {<<NoLine>>,
   <<ProductLine(ProductOf("v1")), VariantLine("v1", ProductOf("v1"), Mpn7665Dash)>>,
   <<[NoLine EXCEPT !.json = "malformed"]>>}

\* bulkFetchVariants up to its second await: startBulkExport returns the id
\* of the operation, or throws when the request fails or reports userErrors.
BulkStart ==
  /\ poll.pc = "idle"
  /\ \/ poll' = [poll EXCEPT !.pc = "polling"]
     \/ \E error \in {FetchFailed, BulkUserErrors} :
          poll' = [poll EXCEPT !.pc = "thrown", !.error = error]
  /\ UNCHANGED <<index, last, ret, jobs, syncs, hook, norm, del, res, bulk, paths>>

\* A plausible slip: the test of downloadUrl left out.
DownloadNeeded_always(downloadUrl) == TRUE

\* if (!downloadUrl) { ...; return []; }
DownloadNeeded(downloadUrl) == ~Falsy(downloadUrl)

\* bulkFetchVariants after pollBulkOperation returned: [] without a download
\* URL, otherwise the download, which can fail, and the parse, which throws
\* on a line that is not JSON.
BulkDownload ==
  /\ poll.pc = "returned"
  /\ IF ~DownloadNeeded(poll.url)
     THEN poll' = [poll EXCEPT !.pc = "fetched", !.variants = <<>>]
     ELSE LET asked == [poll EXCEPT !.downloads = @ + 1]
          IN  \/ poll' = [asked EXCEPT !.pc = "thrown", !.error = DownloadFailed]
              \/ \E lines \in DownloadedResults :
                   LET parsed == downloadAndParseBulkResults(lines)
                   IN  poll' = IF parsed.thrown
                               THEN [asked EXCEPT !.pc = "thrown", !.error = SyntaxError]
                               ELSE [asked EXCEPT !.pc = "fetched",
                                                  !.variants = parsed.variants]
  /\ UNCHANGED <<index, last, ret, jobs, syncs, hook, norm, del, res, bulk, paths>>

\* ----------------------------------------------- the normalizer on its own

NormAlphabet == {"a", "p", "P", "7", "-", " ", "."}

NormInputs ==
  {Null, Mpn7665Dash, Mpn7665Lower, Mpn7665Space, MpnT567L}
    \cup UNION {[1..n -> NormAlphabet] : n \in 0..MaxLen}

NormIdle == [stage |-> 0, input |-> Null, out1 |-> Null, out2 |-> Null]

\* normalizeMpn(input)
Normalize ==
  /\ norm.stage = 0
  /\ norm' = [norm EXCEPT !.stage = 1, !.out1 = normalizeMpn(norm.input)]
  /\ UNCHANGED <<index, last, ret, jobs, syncs, hook, del, res, bulk, poll, paths>>

\* normalizeMpn applied to its own result
NormalizeAgain ==
  /\ norm.stage = 1
  /\ norm' = [norm EXCEPT !.stage = 2, !.out2 = normalizeMpn(norm.out1)]
  /\ UNCHANGED <<index, last, ret, jobs, syncs, hook, del, res, bulk, poll, paths>>

\* ------------------------------------------------ producers side by side

\* Two producers applied on their own to one upstream state of a product: the
\* product node once it is drawn, whether each producer was applied, and the
\* rows it upserts.
PathsIdle ==
  [drawn |-> FALSE, node |-> Null, updated |-> FALSE, synced |-> FALSE,
   viaUpdate |-> {}, viaSync |-> {}]

\* req.body of the products/update delivery that tells of this state
PayloadOf(node) ==
  [id     |-> CHOOSE n \in ProductNums : ProductGid(n) = node.id,
   title  |-> node.title,
   handle |-> node.handle]

\* the rows the loop of processProductUpdate upserts over the fetched variants
UpdateRows(product, variants) ==
  {RowOf(HookVariant(product, variants[i])) :
     i \in {k \in DOMAIN variants : ~Falsy(variants[k].mpn)}}

\* the rows runFullSync upserts over the variants of one page
SyncRows(variants) ==
  {RowOf(SyncVariant(variants[i])) :
     i \in {k \in DOMAIN variants : ~Falsy(variants[k].mpn)}}

\* processProductUpdate(product) for the delivery of this state
PathUpdate ==
  /\ paths.drawn
  /\ ~paths.updated
  /\ paths' = [paths EXCEPT
       !.updated = TRUE,
       !.viaUpdate = UpdateRows(PayloadOf(paths.node),
                                fetchProductVariants(paths.node))]
  /\ UNCHANGED <<index, last, ret, jobs, syncs, hook, norm, del, res, bulk, poll>>

\* runFullSync over a listing whose one page holds this product
PathSync ==
  /\ paths.drawn
  /\ ~paths.synced
  /\ paths' = [paths EXCEPT
       !.synced = TRUE,
       !.viaSync = SyncRows(fetchVariantsWithMetafield(<<paths.node>>))]
  /\ UNCHANGED <<index, last, ret, jobs, syncs, hook, norm, del, res, bulk, poll>>

\* ------------------------------------------------------- specifications

InitEngine ==
  /\ index = {}
  /\ last = NoWrite
  /\ ret = NoRet
  /\ jobs = <<>>
  /\ syncs = <<>>
  /\ hook = [h \in 1..MaxHooks |-> IdleHook]
  /\ del = IdleDelete
  /\ res = NoResponses

Init ==
  /\ InitEngine
  /\ norm = NormIdle
  /\ bulk = BulkIdle
  /\ poll = PollIdle
  /\ paths = PathsIdle

\* The normalizer applied to every input of NormInputs.
InitNorm ==
  /\ InitEngine
  /\ paths = PathsIdle
  /\ bulk = BulkIdle
  /\ poll = PollIdle
  /\ \E s \in NormInputs : norm = [NormIdle EXCEPT !.input = s]
NextNorm == Normalize \/ NormalizeAgain
SpecNorm == InitNorm /\ [][NextNorm]_vars

\* The bulk-export parser applied to every result of BulkInputs.
InitBulk ==
  /\ InitEngine
  /\ paths = PathsIdle
  /\ norm = NormIdle
  /\ poll = PollIdle
  /\ \E lines \in BulkInputs : bulk = [BulkIdle EXCEPT !.lines = lines]
NextBulk == BulkParse
SpecBulk == InitBulk /\ [][NextBulk]_vars

\* One call of pollBulkOperation, from its first status query on.  Every
\* query is answered or rejected and every wait ends, so the loop goes on as
\* long as it can.
InitPoll ==
  /\ InitEngine
  /\ paths = PathsIdle
  /\ norm = NormIdle
  /\ bulk = BulkIdle
  /\ poll = [PollIdle EXCEPT !.pc = "polling"]
NextPoll == PollStep
SpecPoll == InitPoll /\ [][NextPoll]_vars /\ WF_vars(NextPoll)

\* The update path and the full-sync path applied to every state of one
\* product: published or not, its variants with or without an mpn and an
\* image of their own, the product with or without a featured image.
PathsDom ==
  [variants  |-> {"v1", "v2", "v3"},
   values    |-> {Null, Mpn7665Dash},
   images    |-> {Null, <<"image">>, <<"featured">>},
   revs      |-> {1},
   exists    |-> {TRUE},
   storeUrls |-> {Null, <<"url">>},
   pageLen   |-> 1,
   maxJobs   |-> 0,
   maxPages  |-> 0,
   failures  |-> FALSE,
   responses |-> FALSE,
   seen      |-> FALSE]

InitPaths ==
  /\ InitEngine
  /\ norm = NormIdle
  /\ bulk = BulkIdle
  /\ poll = PollIdle
  /\ \E p \in ProductIds : \E node \in ProductNodes(p, PathsDom) :
       paths = [PathsIdle EXCEPT !.drawn = TRUE, !.node = node]
NextPaths == PathUpdate \/ PathSync
SpecPaths == InitPaths /\ [][NextPaths]_vars

\* One call of bulkFetchVariants: the export is started, polled, and its
\* result downloaded and parsed where there is one.
NextBulkFetch == BulkStart \/ PollStep \/ BulkDownload
SpecBulkFetch == Init /\ [][NextBulkFetch]_vars

\* The index store under product updates, clears and lookups, one delivery
\* ingested at a time, over raw keys that share a canonical key, extend one
\* another, or normalize to fewer than two characters.
LookupDom ==
  [variants  |-> {"v1", "v3"},
   values    |-> {Null, Mpn7665Dash, MpnT567L, MpnT567Long, MpnShort},
   images    |-> {Null},
   revs      |-> {1},
   exists    |-> {TRUE},
   storeUrls |-> {<<"url">>},
   pageLen   |-> 1,
   maxJobs   |-> 0,
   maxPages  |-> 0,
   failures  |-> FALSE,
   responses |-> FALSE,
   seen      |-> FALSE]

LookupQueries ==
  {<<>>, Mpn7665Dash, Mpn7665Lower, Mpn7665Space, MpnT567L, MpnT567Long, MpnShort}

LookupLimits == 1..MaxLimit \cup {DefaultLimit}

NextLookup ==
  \/ UpdateWebhook(1, LookupDom)
  \/ HookFetch(1, LookupDom)
  \/ HookStep(1, LookupDom, TRUE)
  \/ ClearRoute(LookupDom, TRUE)
  \/ SearchRoute(LookupDom, LookupQueries, LookupLimits)
  \/ StatsRoute
SpecLookup == Init /\ [][NextLookup]_vars

\* The search route over an index filled by product updates, every awaited
\* call able to fail, with raw keys that normalize to nothing, to one
\* character, and to a full key.
SearchDom ==
  [variants  |-> {"v1"},
   values    |-> {MpnPunct, MpnShort, Mpn7665Dash},
   images    |-> {Null},
   revs      |-> {1},
   exists    |-> {TRUE},
   storeUrls |-> {<<"url">>},
   pageLen   |-> 1,
   maxJobs   |-> 0,
   maxPages  |-> 0,
   failures  |-> TRUE,
   responses |-> FALSE,
   seen      |-> FALSE]

\* q missing, empty, blank, one character between blanks, punctuation only,
\* one alphanumeric character with punctuation, and full keys
SearchQueries ==
  {Null, <<>>, <<" ", " ">>, <<" ", "a", " ">>, MpnPunct, MpnShort,
   Mpn7665Dash, MpnT567L}

NextSearch ==
  \/ UpdateWebhook(1, SearchDom)
  \/ HookFetch(1, SearchDom)
  \/ HookStep(1, SearchDom, FALSE)
  \/ SearchRoute(SearchDom, SearchQueries, {DefaultLimit})
SpecSearch == Init /\ [][NextSearch]_vars

\* Change ingestion with a store and a catalog that do not fail: product
\* updates and deletes, one delivery of each kind at a time, the write history
\* kept.
IngestDom ==
  [variants  |-> {"v1", "v3"},
   values    |-> {Null, Mpn7665Dash},
   images    |-> {Null},
   revs      |-> {1},
   exists    |-> {TRUE},
   storeUrls |-> {<<"url">>},
   pageLen   |-> 1,
   maxJobs   |-> 0,
   maxPages  |-> 0,
   failures  |-> FALSE,
   responses |-> FALSE,
   seen      |-> FALSE]

NextIngest ==
  \/ UpdateWebhook(1, IngestDom)
  \/ HookFetch(1, IngestDom)
  \/ HookStep(1, IngestDom, TRUE)
  \/ DeleteWebhook(IngestDom)
  \/ DeleteStep(IngestDom, TRUE)
SpecIngest == Init /\ [][NextIngest]_vars

\* Product updates on their own, one delivery ingested at a time, with a store
\* and a catalog that do not fail: products that are missing, unpublished, or
\* hold up to two variants whose attribute is set, empty or absent.
UpdateDom ==
  [variants  |-> {"v1", "v2", "v3"},
   values    |-> {Null, <<>>, Mpn7665Dash, MpnT567L},
   images    |-> {Null},
   revs      |-> {1},
   exists    |-> {TRUE, FALSE},
   storeUrls |-> {Null, <<"url">>},
   pageLen   |-> 1,
   maxJobs   |-> 0,
   maxPages  |-> 0,
   failures  |-> FALSE,
   responses |-> FALSE,
   seen      |-> FALSE]

NextUpdate ==
  \/ UpdateWebhook(1, UpdateDom)
  \/ HookFetch(1, UpdateDom)
  \/ HookStep(1, UpdateDom, TRUE)
SpecUpdate == Init /\ [][NextUpdate]_vars

\* The two deletes of the index store as the webhooks apply them: product
\* updates and deletes over two products of up to two variants, with a store
\* and a catalog that do not fail, the write history kept.
DeleteDom ==
  [variants  |-> {"v1", "v2", "v3"},
   values    |-> {Null, Mpn7665Dash},
   images    |-> {Null},
   revs      |-> {1},
   exists    |-> {TRUE},
   storeUrls |-> {<<"url">>},
   pageLen   |-> 1,
   maxJobs   |-> 0,
   maxPages  |-> 0,
   failures  |-> FALSE,
   responses |-> FALSE,
   seen      |-> FALSE]

NextDelete ==
  \/ UpdateWebhook(1, DeleteDom)
  \/ HookFetch(1, DeleteDom)
  \/ HookStep(1, DeleteDom, TRUE)
  \/ DeleteWebhook(DeleteDom)
  \/ DeleteStep(DeleteDom, TRUE)
SpecDelete == Init /\ [][NextDelete]_vars

\* Upserts over rows that are already there: product updates of two products
\* of one variant whose two revisions differ in every display string, the
\* image and the raw key changing as well; store and catalog do not fail,
\* the write history is kept.
UpsertDom ==
  [variants  |-> {"v1", "v3"},
   values    |-> {Mpn7665Dash, MpnT567L},
   images    |-> {Null, <<"image">>},
   revs      |-> {1, 2},
   exists    |-> {TRUE},
   storeUrls |-> {<<"url">>},
   pageLen   |-> 1,
   maxJobs   |-> 0,
   maxPages  |-> 0,
   failures  |-> FALSE,
   responses |-> FALSE,
   seen      |-> FALSE]

NextUpsert ==
  \/ UpdateWebhook(1, UpsertDom)
  \/ HookFetch(1, UpsertDom)
  \/ HookStep(1, UpsertDom, TRUE)
SpecUpsert == Init /\ [][NextUpsert]_vars

\* The receiving edge of the webhooks: deliveries with every kind of
\* signature, a catalog and a store that can fail, the responses and the write
\* history kept.
EdgeDom ==
  [variants  |-> {"v1", "v2"},
   values    |-> {Null, Mpn7665Dash},
   images    |-> {Null},
   revs      |-> {1},
   exists    |-> {TRUE},
   storeUrls |-> {<<"url">>},
   pageLen   |-> 1,
   maxJobs   |-> 0,
   maxPages  |-> 0,
   failures  |-> TRUE,
   responses |-> TRUE,
   seen      |-> FALSE]

NextEdge ==
  \/ \E h \in 1..MaxHooks : UpdateWebhook(h, EdgeDom)
  \/ \E h \in 1..MaxHooks : HookFetch(h, EdgeDom)
  \/ \E h \in 1..MaxHooks : HookStep(h, EdgeDom, TRUE)
  \/ DeleteWebhook(EdgeDom)
  \/ DeleteStep(EdgeDom, TRUE)
SpecEdge == Init /\ [][NextEdge]_vars

\* the most pages of the catalog's listing when full syncs run on their own
MaxSyncPages == 2

\* The job tracker under full syncs alone: up to MaxJobs runs over a listing of
\* up to MaxSyncPages pages of up to two variants, every awaited call able to
\* fail, the responses of POST /api/sync/full kept.
JobsDom ==
  [variants  |-> {"v1", "v2"},
   values    |-> {Mpn7665Dash},
   images    |-> {Null},
   revs      |-> {1},
   exists    |-> {TRUE},
   storeUrls |-> {<<"url">>},
   pageLen   |-> 1,
   maxJobs   |-> MaxJobs,
   maxPages  |-> MaxSyncPages,
   failures  |-> TRUE,
   responses |-> TRUE,
   seen      |-> FALSE]

NextJobs ==
  \/ StartFullSync(JobsDom)
  \/ \E j \in DOMAIN syncs : SyncClear(j, JobsDom, FALSE)
  \/ \E j \in DOMAIN syncs : SyncFetch(j, JobsDom)
  \/ \E j \in DOMAIN syncs : SyncUpsert(j, JobsDom, FALSE)
  \/ \E j \in DOMAIN syncs : SyncProgress(j, JobsDom)
  \/ \E j \in DOMAIN syncs : SyncComplete(j, JobsDom)
  \/ \E j \in DOMAIN syncs : SyncCatch(j, JobsDom)
SpecJobs == Init /\ [][NextJobs]_vars

\* Full syncs one after the other, each started when the one before has
\* ended and nothing else writing: a listing of up to MaxSyncPages pages of one
\* product each, published or not, every awaited call able to fail, what the
\* listing returned kept with the run.
ResyncDom ==
  [variants  |-> {"v1", "v2", "v3"},
   values    |-> {Null, Mpn7665Dash},
   images    |-> {Null},
   revs      |-> {1},
   exists    |-> {TRUE},
   storeUrls |-> {Null, <<"url">>},
   pageLen   |-> 1,
   maxJobs   |-> MaxJobs,
   maxPages  |-> MaxSyncPages,
   failures  |-> TRUE,
   responses |-> FALSE,
   seen      |-> TRUE]

\* POST /api/sync/full while no run is under way
StartAlone ==
  /\ \A j \in DOMAIN syncs : syncs[j].pc = "done"
  /\ StartFullSync(ResyncDom)

NextResync ==
  \/ StartAlone
  \/ \E j \in DOMAIN syncs : SyncClear(j, ResyncDom, FALSE)
  \/ \E j \in DOMAIN syncs : SyncFetch(j, ResyncDom)
  \/ \E j \in DOMAIN syncs : SyncUpsert(j, ResyncDom, FALSE)
  \/ \E j \in DOMAIN syncs : SyncProgress(j, ResyncDom)
  \/ \E j \in DOMAIN syncs : SyncComplete(j, ResyncDom)
  \/ \E j \in DOMAIN syncs : SyncCatch(j, ResyncDom)
SpecResync == Init /\ [][NextResync]_vars

\* One full sync over a listing of one page next to product updates and
\* deletes, in any interleaving, with a store and a catalog that do not fail,
\* the write history kept.
RaceDom ==
  [variants  |-> {"v1", "v2"},
   values    |-> {Null, Mpn7665Dash},
   images    |-> {Null},
   revs      |-> {1},
   exists    |-> {TRUE},
   storeUrls |-> {<<"url">>},
   pageLen   |-> 1,
   maxJobs   |-> 1,
   maxPages  |-> MaxPages,
   failures  |-> FALSE,
   responses |-> FALSE,
   seen      |-> FALSE]

NextRace ==
  \/ StartFullSync(RaceDom)
  \/ \E j \in DOMAIN syncs : SyncClear(j, RaceDom, TRUE)
  \/ \E j \in DOMAIN syncs : SyncFetch(j, RaceDom)
  \/ \E j \in DOMAIN syncs : SyncUpsert(j, RaceDom, TRUE)
  \/ \E j \in DOMAIN syncs : SyncProgress(j, RaceDom)
  \/ \E j \in DOMAIN syncs : SyncComplete(j, RaceDom)
  \/ \E h \in 1..MaxHooks : UpdateWebhook(h, RaceDom)
  \/ \E h \in 1..MaxHooks : HookFetch(h, RaceDom)
  \/ \E h \in 1..MaxHooks : HookStep(h, RaceDom, TRUE)
  \/ DeleteWebhook(RaceDom)
  \/ DeleteStep(RaceDom, TRUE)
SpecRace == Init /\ [][NextRace]_vars

\* Full syncs in a process that does not stop, over a listing of up to
\* MaxSyncPages pages of up to one variant: every awaited call of a run is
\* answered or rejected, and the run then goes on.
LiveDom ==
  [variants  |-> {"v1"},
   values    |-> {Mpn7665Dash},
   images    |-> {Null},
   revs      |-> {1},
   exists    |-> {TRUE},
   storeUrls |-> {<<"url">>},
   pageLen   |-> 1,
   maxJobs   |-> MaxJobs,
   maxPages  |-> MaxSyncPages,
   failures  |-> TRUE,
   responses |-> FALSE,
   seen      |-> FALSE]

\* The steps of the run of job j.
RunStep(j) ==
  /\ j \in DOMAIN syncs
  /\ \/ SyncClear(j, LiveDom, FALSE)
     \/ SyncFetch(j, LiveDom)
     \/ SyncUpsert(j, LiveDom, FALSE)
     \/ SyncProgress(j, LiveDom)
     \/ SyncComplete(j, LiveDom)
     \/ SyncCatch(j, LiveDom)

NextLive ==
  \/ StartFullSync(LiveDom)
  \/ \E j \in DOMAIN syncs : SyncClear(j, LiveDom, FALSE)
  \/ \E j \in DOMAIN syncs : SyncFetch(j, LiveDom)
  \/ \E j \in DOMAIN syncs : SyncUpsert(j, LiveDom, FALSE)
  \/ \E j \in DOMAIN syncs : SyncProgress(j, LiveDom)
  \/ \E j \in DOMAIN syncs : SyncComplete(j, LiveDom)
  \/ \E j \in DOMAIN syncs : SyncCatch(j, LiveDom)
SpecLive ==
  Init /\ [][NextLive]_vars /\ \A j \in 1..MaxJobs : WF_vars(RunStep(j))

\* The whole engine: full syncs, product webhooks and clears in any
\* interleaving, every awaited call able to fail, over a catalog of one variant.
\* Neither the write history nor the responses are kept here.
EngineDom ==
  [variants  |-> {"v1"},
   values    |-> {Null, Mpn7665Dash, MpnPunct},
   images    |-> {Null},
   revs      |-> {1},
   exists    |-> {TRUE, FALSE},
   storeUrls |-> {Null, <<"url">>},
   pageLen   |-> 1,
   maxJobs   |-> MaxJobs,
   maxPages  |-> MaxPages,
   failures  |-> TRUE,
   responses |-> FALSE,
   seen      |-> FALSE]

Next ==
  \/ StartFullSync(EngineDom)
  \/ \E j \in DOMAIN syncs : SyncClear(j, EngineDom, FALSE)
  \/ \E j \in DOMAIN syncs : SyncFetch(j, EngineDom)
  \/ \E j \in DOMAIN syncs : SyncUpsert(j, EngineDom, FALSE)
  \/ \E j \in DOMAIN syncs : SyncProgress(j, EngineDom)
  \/ \E j \in DOMAIN syncs : SyncComplete(j, EngineDom)
  \/ \E j \in DOMAIN syncs : SyncCatch(j, EngineDom)
  \/ \E h \in 1..MaxHooks : UpdateWebhook(h, EngineDom)
  \/ \E h \in 1..MaxHooks : HookFetch(h, EngineDom)
  \/ \E h \in 1..MaxHooks : HookStep(h, EngineDom, FALSE)
  \/ DeleteWebhook(EngineDom)
  \/ DeleteStep(EngineDom, FALSE)
  \/ ClearRoute(EngineDom, FALSE)
Spec == Init /\ [][Next]_vars

\* --------------------------------------------------------------- claims

\* the stored key of the row a returned entry stands for
StoredKeys(variantId) == {r.mpn_normalized : r \in {x \in index : x.variant_id = variantId}}

\* C1: every entry a search returns stands for a row whose stored canonical
\* key equals normalizeMpn of the query; a row whose key only starts with the
\* normalized query is not returned.
C1_ExactMatchOnly ==
  ret.op = "search" =>
    \A m \in ret.rows : StoredKeys(m.variantId) = {normalizeMpn(ret.q)}

\* C1 witness: a search for "T567L" while a row with key "T567L9900P" is stored.
C1_Witness ==
  /\ ret.op = "search"
  /\ ret.q = MpnT567L
  /\ \E r \in index : r.mpn_normalized = MpnT567Long
  /\ ret.rows = {}

\* C2: in every reachable state every row's mpn_normalized is normalizeMpn of
\* the mpn stored in the same row.
C2_KeyNeverStale ==
  \A r \in index : r.mpn_normalized = normalizeMpn(r.mpn)

\* C2 witness: a full sync and a product update have both written rows.
C2_Witness ==
  /\ \E r \in index : r.mpn = Mpn7665Dash /\ r.mpn_normalized = Key7665PP
  /\ \E j \in DOMAIN jobs :
       jobs[j].status = "completed" /\ jobs[j].indexed_variants >= 1
  /\ \E h \in DOMAIN hook : hook[h].pc = "logged" /\ hook[h].updated >= 1

\* C3: in every reachable state no row has an empty or absent mpn.
C3_NoRowWithoutMpn ==
  \A r \in index : ~Falsy(r.mpn)

\* C3 witness: a product update has deleted the row of a variant without mpn
\* while a row written by a full sync is in the index.
C3_Witness ==
  /\ \E h \in DOMAIN hook : hook[h].pc = "logged" /\ hook[h].removed >= 1
  /\ \E j \in DOMAIN jobs : jobs[j].indexed_variants >= 1
  /\ index # {}

\* C4: no reachable state holds a row whose canonical key is the empty string
\* (a raw value of punctuation only is treated as absent).
C4_NoEmptyKey ==
  \A r \in index : r.mpn_normalized # <<>>

\* C5: normalizeMpn is idempotent and its result is absent or made of
\* upper-case letters and digits only.
C5_Idempotent ==
  norm.stage = 2 =>
    /\ norm.out2 = norm.out1
    /\ \/ norm.out1 = Null
       \/ \A i \in DOMAIN norm.out1 : norm.out1[i] \in Range(UpperCase) \cup Digits

\* C6: normalizeMpn never returns the empty string: when nothing is left of
\* the input the result is absent.
C6_NeverEmptyString ==
  norm.stage >= 1 => norm.out1 # <<>>

Forms7665 == {Mpn7665Dash, Mpn7665Lower, Mpn7665Space}

\* C7: "7665-PP", "7665pp" and "7665 PP" all normalize to "7665PP", and a
\* search for any of them returns every row stored with mpn "7665-PP", unless
\* LIMIT cut the result, which then holds limit entries.
C7_FormsShareKey ==
  (ret.op = "search" /\ ret.q \in Forms7665) =>
    /\ normalizeMpn(ret.q) = Key7665PP
    /\ \/ \A r \in index : r.mpn = Mpn7665Dash => Match(r) \in ret.rows
       \/ Cardinality(ret.rows) = ret.limit

\* C7 witness: a search for "7665pp" returned a row stored with "7665-PP".
C7_Witness ==
  /\ ret.op = "search"
  /\ ret.q = Mpn7665Lower
  /\ \E m \in ret.rows : m.mpn = Mpn7665Dash

\* a search for the raw key of the row the most recent write upserted
SearchAfterUpsert ==
  /\ ret.op = "search"
  /\ last.op = "upsertVariant"
  /\ ~Falsy(last.mpn)
  /\ ret.q = last.mpn

FoundOnce == Cardinality({m \in ret.rows : m.variantId = last.variant_id}) = 1

\* C8 as stated: after upsertVariant(r) with a non-empty mpn, a search for
\* r.mpn returns exactly one entry with r's variant_id, whatever the key's
\* normalized length and whatever the limit.
C8_Original ==
  SearchAfterUpsert => FoundOnce

\* C8 as amended: the same, when the normalized key has at least 2 characters
\* and the limit is at least the number of rows sharing the key.
C8_FoundAfterUpsert ==
  (/\ SearchAfterUpsert
   /\ Len(normalizeMpn(last.mpn)) >= 2
   /\ ret.limit >= Cardinality(Matching(index, normalizeMpn(last.mpn))))
    => FoundOnce

\* C8 witness: the upserted row shares its key with another row and the
\* search returned both.
C8_Witness ==
  /\ SearchAfterUpsert
  /\ Cardinality(Matching(index, normalizeMpn(last.mpn))) = 2
  /\ Cardinality(ret.rows) = 2
  /\ FoundOnce

\* C9: after deleteVariant(id), with no later write, a search for the key the
\* row had returns no entry with that variant_id.
C9_GoneAfterDelete ==
  (/\ ret.op = "search"
   /\ last.op = "deleteVariant"
   /\ normalizeMpn(ret.q) \in last.hadKeys)
    => \A m \in ret.rows : m.variantId # last.variant_id

\* C9 witness: the deleted row shared its key with a row that the search for
\* that key still returns.
C9_Witness ==
  /\ ret.op = "search"
  /\ last.op = "deleteVariant"
  /\ last.changes = 1
  /\ normalizeMpn(ret.q) \in last.hadKeys
  /\ ret.rows # {}

\* C10: getIndexStats right after clearIndex, with no write in between,
\* reports total_variants = 0.
C10_StatsAfterClear ==
  (ret.op = "stats" /\ last.op = "clearIndex") => ret.total_variants = 0

\* C10 witness: the clear removed rows and the statistics were read after it.
C10_Witness ==
  /\ ret.op = "stats"
  /\ last.op = "clearIndex"
  /\ last.changes >= 1

\* C11: when the fetch of a page fails, the statement that finalizes the job,
\* once applied, sets status = failed, a non-empty error_message, and
\* indexed_variants = the number of rows the run upserted from the pages
\* before.
C11_FetchFailureFinalized ==
  [][\A j \in DOMAIN syncs :
       (/\ syncs[j].pc = "catch"
        /\ syncs[j].error = FetchFailed
        /\ jobs'[j] # jobs[j])
         => /\ jobs'[j].status = "failed"
            /\ ~Falsy(jobs'[j].error_message)
            /\ jobs'[j].indexed_variants = syncs[j].upserted]_vars

\* C11 witness: the fetch of page 2 failed after the two rows of page 1 were
\* upserted, and the job was finalized.
C11_Witness ==
  \E j \in DOMAIN jobs :
    /\ jobs[j].status = "failed"
    /\ jobs[j].error_message = FetchFailed
    /\ jobs[j].processed_variants = 2
    /\ jobs[j].indexed_variants = 2

\* C12: when the statement of a verified delete delivery is applied right
\* after the statement of a delete delivery for the same product, no write in
\* between, the index is left as it was and the handler logs the count without
\* an error.
C12_RedeliveredDeleteIsNoOp ==
  [][(/\ del.pc = "delete"
      /\ del'.pc = "idle"
      /\ last'.op = "deleteProductVariants"
      /\ last'.again)
       => /\ index' = index
          /\ last'.changes = 0
          /\ del'.outcome = "logged"]_vars

\* C12 witness: a delete delivery was ingested a second time in a row while
\* the row of another product is in the index.
C12_Witness ==
  /\ last.op = "deleteProductVariants"
  /\ last.again
  /\ del.pc = "idle"
  /\ del.outcome = "logged"
  /\ \E r \in index : r.product_id # last.product_id

\* C13: a search whose query is missing, empty, or normalizes to fewer than 2
\* characters is answered 200 with an empty list and issues no statement
\* against the index, whichever guard catches it.
C13_ShortQueryNoRead ==
  (/\ ret.op = "search"
   /\ \/ Falsy(ret.q)
      \/ Falsy(normalizeMpn(ret.q))
      \/ Len(normalizeMpn(ret.q)) < 2)
    => /\ ret.status = 200
       /\ ret.rows = {}
       /\ ret.reads = 0

\* C13 witness: a search for "a-" while a row with the raw key "a-" is stored:
\* the route guard lets it pass and the store guard answers.
C13_Witness ==
  /\ ret.op = "search"
  /\ ret.q = MpnShort
  /\ \E r \in index : r.mpn = MpnShort
  /\ ret.rows = {}
  /\ ret.reads = 0

\* the variant lines of the parsed result whose parent is, or is not, among
\* its product lines
VariantLinesAt(withParent) ==
  {i \in DOMAIN bulk.lines :
     /\ IsVariantLine(bulk.lines[i])
     /\ (\E k \in DOMAIN bulk.lines :
           /\ IsProductLine(bulk.lines[k])
           /\ bulk.lines[k].id = bulk.lines[i].parentId) <=> withParent}

OrphansExcluded ==
  \A i \in VariantLinesAt(FALSE) :
    \A k \in DOMAIN bulk.variants : bulk.variants[k].id # bulk.lines[i].id

Parsed == bulk.stage = 1 /\ \A i \in DOMAIN bulk.lines : bulk.lines[i].json # "malformed"

C15_FinalStatusStays ==
  [][\A j \in DOMAIN jobs :
       /\ jobs[j].status \in {"running", "completed", "failed"}
       /\ jobs[j].status # "running" =>
            /\ syncs[j].pc = "done"
            /\ jobs'[j] = jobs[j]]_vars

\* C15 witness: one job completed and another failed.
C15_Witness ==
  /\ \E j \in DOMAIN jobs : jobs[j].status = "completed"
  /\ \E j \in DOMAIN jobs : jobs[j].status = "failed"
  /\ \A j \in DOMAIN syncs : syncs[j].pc = "done"

\* C16: in every reachable state a job's completed_at is set if and only if
\* its status is not running.
C16_CompletedAtIffFinal ==
  \A j \in DOMAIN jobs :
    (jobs[j].completed_at # Null) <=> (jobs[j].status # "running")

\* C16 witness: a running job whose progress was updated, next to a finalized
\* one.
C16_Witness ==
  /\ \E j \in DOMAIN jobs :
       /\ jobs[j].status = "running"
       /\ jobs[j].processed_variants >= 1
       /\ jobs[j].completed_at = Null
  /\ \E j \in DOMAIN jobs :
       /\ jobs[j].status # "running"
       /\ jobs[j].completed_at # Null

\* C17: from one state to the next, finalization on success or on failure
\* included, no job's processed_variants or indexed_variants decreases.
C17_CountersNeverDecrease ==
  [][\A j \in DOMAIN jobs :
       /\ jobs'[j].processed_variants >= jobs[j].processed_variants
       /\ jobs'[j].indexed_variants >= jobs[j].indexed_variants]_vars

\* C17 witness: a run failed on a rejected statement after its progress was
\* stored, and its job was finalized with the counters it had.
C17_Witness ==
  \E j \in DOMAIN jobs :
    /\ jobs[j].status = "failed"
    /\ jobs[j].error_message = <<"SQLITE_ERROR">>
    /\ jobs[j].processed_variants = 2
    /\ jobs[j].indexed_variants = 2

\* C18: every job was answered for when it was created, with success and its
\* job id, and the answer stands whatever becomes of the run: while it has not
\* yet taken a step, while it runs, and after it completed or failed.
C18_AnsweredBeforeTheSync ==
  /\ Len(res.full) = Len(jobs)
  /\ \A j \in DOMAIN jobs :
       res.full[j] = [status |-> 200, success |-> TRUE, jobId |-> j]

\* C18 witness: the answers are out while one run has failed and another has
\* not yet issued its first statement.
C18_Witness ==
  /\ \E j \in DOMAIN jobs :
       /\ jobs[j].status = "failed"
       /\ res.full[j].success
  /\ \E j \in DOMAIN jobs :
       /\ jobs[j].status = "running"
       /\ syncs[j].pc = "clear"
       /\ res.full[j].jobId = j

\* a step that answered a delivery which did not carry the digest of its body
Turned(before, after) == after # before /\ after.hmac # "valid"

\* C19: a step that handles an update or delete delivery whose signature is
\* missing, wrong, or of another length answers no 200 and changes neither
\* the index nor a job nor any ingestion under way.
C19_UnverifiedChangesNothing ==
  [][(\/ \E h \in 1..MaxHooks : Turned(res.hook[h], res'.hook[h])
      \/ Turned(res.del, res'.del))
       => /\ \A h \in 1..MaxHooks :
               Turned(res.hook[h], res'.hook[h]) => res'.hook[h].status # 200
          /\ Turned(res.del, res'.del) => res'.del.status # 200
          /\ UNCHANGED <<index, jobs, syncs, hook, del>>]_vars

\* C19 witness: an update delivery with a wrong signature and a delete
\* delivery without one were answered 401 while the index holds rows.
C19_Witness ==
  /\ \E h \in 1..MaxHooks : res.hook[h] = [hmac |-> "forged", status |-> 401]
  /\ res.del = [hmac |-> "absent", status |-> 401]
  /\ index # {}

Acknowledged == [hmac |-> "valid", status |-> 200]

\* C20: every step of the ingestion of an update or delete delivery, its
\* catalog fetch and each of its writes or failures, happens after the 200 was
\* sent and leaves it as sent; a failed ingestion is left only by the
\* reception of another delivery.
C20_AcknowledgedBeforeIngestion ==
  [][/\ \A h \in 1..MaxHooks :
          /\ (hook[h].pc \in {"fetch", "loop"} /\ hook'[h] # hook[h])
                => res.hook[h] = Acknowledged /\ res'.hook[h] = Acknowledged
          /\ (hook[h].pc = "caught" /\ hook'[h] # hook[h])
                => UpdateWebhook(h, EdgeDom)
     /\ (del.pc = "delete" /\ del' # del)
          => res.del = Acknowledged /\ res'.del = Acknowledged /\ del'.pc = "idle"
     /\ (del.outcome = "caught" /\ del' # del) => DeleteWebhook(EdgeDom)]_vars

\* C20 witness: an update ingestion failed after its first write and a delete
\* ingestion failed, both acknowledged.
C20_Witness ==
  /\ \E h \in 1..MaxHooks :
       /\ hook[h].pc = "caught"
       /\ hook[h].updated >= 1
       /\ res.hook[h] = Acknowledged
  /\ del.outcome = "caught"
  /\ res.del = Acknowledged

\* C21: when the ingestion of an update delivery has passed over every
\* fetched variant, no statement rejected and no other writer at work, every
\* fetched variant with a non-empty mpn has a row holding that mpn, and no
\* fetched variant with an empty or absent one has a row.
C21_FetchedStateApplied ==
  \A h \in 1..MaxHooks :
    hook[h].pc = "logged" =>
      \A i \in DOMAIN hook[h].variants :
        LET variant == hook[h].variants[i]
            rows == {r \in index : r.variant_id = variant.id}
        IN  IF Falsy(variant.mpn)
            THEN rows = {}
            ELSE Cardinality(rows) = 1 /\ \A r \in rows : r.mpn = variant.mpn

\* C21 witness: a delivery whose product was fetched with one variant that
\* has an mpn and one whose mpn was cleared, the row of the latter removed.
C21_Witness ==
  /\ hook[1].pc = "logged"
  /\ hook[1].updated = 1
  /\ hook[1].removed = 1
  /\ last.op = "deleteVariant"
  /\ last.changes = 1

\* C22: a pass of the loop of an update delivery that is not the last, its
\* statement applied or rejected, is followed by the pass over the next
\* variant.
C22_FailureDoesNotAbort ==
  [][\A h \in 1..MaxHooks :
       (/\ hook[h].pc = "loop"
        /\ hook[h].next < Len(hook[h].variants)
        /\ hook'[h] # hook[h])
         => hook'[h].pc = "loop" /\ hook'[h].next = hook[h].next + 1]_vars

\* the variant, product and raw key of each row of the index
Entries(idx) ==
  {[variant_id |-> r.variant_id, product_id |-> r.product_id, mpn |-> r.mpn] :
     r \in idx}

\* the same of the variants a listing returned with a non-empty mpn, a variant
\* returned more than once taken as returned last
Returned(seen) ==
  LET latest == {i \in DOMAIN seen :
                   \A k \in DOMAIN seen : seen[k].id = seen[i].id => k <= i}
  IN  {[variant_id |-> seen[i].id, product_id |-> seen[i].product.id,
        mpn |-> seen[i].mpn] : i \in {k \in latest : ~Falsy(seen[k].mpn)}}

\* C23: when a full sync that ran with no other writer finalizes its job as
\* completed, the index holds exactly the variants with a non-empty mpn the
\* listing returned over all its pages: no row from before the sync is left.
C23_GroundTruthResync ==
  [][\A j \in DOMAIN syncs :
       (syncs[j].pc = "complete" /\ jobs'[j].status = "completed")
         => Entries(index') = Returned(syncs[j].seen)]_vars

\* C23 witness: a first sync indexed the two variants of product 1; a second
\* one, whose listing returned product 2 only, completed and left the variant
\* of product 2 alone in the index.
C23_Witness ==
  /\ Len(jobs) = 2
  /\ jobs[1].status = "completed"
  /\ jobs[1].indexed_variants = 2
  /\ jobs[2].status = "completed"
  /\ jobs[2].indexed_variants = 1
  /\ {r.variant_id : r \in index} = {"v3"}

\* C24: a full sync can be started whatever the state of the jobs started
\* before, be they running: POST /api/sync/full is refused for no running
\* job, and the clear of a run empties the index whatever another run has
\* upserted into it.
C24_SyncsNotSerialized ==
  /\ Len(jobs) < MaxJobs => ENABLED StartFullSync(JobsDom)
  /\ \A j \in DOMAIN syncs :
       syncs[j].pc = "clear" => ENABLED (SyncClear(j, JobsDom, FALSE) /\ index' = {})

\* C24 witness: job 1 completed with two variants counted as indexed and only
\* the second is in the index: job 2, which upserted nothing and failed on a
\* fetch, cleared the index between the two upserts of job 1.
C24_Witness ==
  /\ Len(jobs) = 2
  /\ jobs[1].status = "completed"
  /\ jobs[1].indexed_variants = 2
  /\ jobs[2].status = "failed"
  /\ jobs[2].error_message = FetchFailed
  /\ jobs[2].processed_variants = 0
  /\ {r.variant_id : r \in index} = {"v2"}

\* C25: whatever interleaving of a full sync with update and delete
\* deliveries led to it, in every state the index says of the target of the
\* most recent write what that write says: the row with its mpn after an
\* upsert, no row of the variant, of the product, or at all after a delete or
\* a clear.
C25_LastWriteWins ==
  CASE last.op = "upsertVariant" ->
         \E r \in index :
           /\ r.variant_id = last.variant_id
           /\ r.product_id = last.product_id
           /\ r.mpn = last.mpn
           /\ \A x \in index : x.variant_id = r.variant_id => x = r
    [] last.op = "deleteVariant" ->
         \A r \in index : r.variant_id # last.variant_id
    [] last.op = "deleteProductVariants" ->
         \A r \in index : r.product_id # last.product_id
    [] last.op = "clearIndex" -> index = {}
    [] last.op = "none" -> index = {}

\* C25 witness: the sync fetched the two variants of product 1 and upserted
\* the first; the delete delivery for product 1 was then applied; the sync
\* upserted the second and completed.  No update delivery took part, and a
\* row of the deleted product is in the index.
C25_Witness ==
  /\ jobs # <<>>
  /\ jobs[1].status = "completed"
  /\ jobs[1].indexed_variants = 2
  /\ del.outcome = "logged"
  /\ \A h \in 1..MaxHooks : hook[h].pc = "idle"
  /\ last.op = "upsertVariant"
  /\ last.product_id = ProductGid("1")
  /\ {r.variant_id : r \in index} = {"v2"}

\* C26: a call of pollBulkOperation ends; it issues at most maxAttempts (120)
\* status queries; it returns only when the status found is COMPLETED, and
\* then it does return; it throws one error for FAILED, another for CANCELED
\* and a third when the attempts are used up.
C26_PollingTerminates ==
  /\ [](/\ poll.polls <= maxAttempts
        /\ (poll.pc = "returned") <=> (poll.status = "COMPLETED")
        /\ poll.status = "FAILED" => poll.pc = "thrown" /\ poll.error = BulkFailed
        /\ poll.status = "CANCELED" => poll.pc = "thrown" /\ poll.error = BulkCanceled
        /\ poll.attempts = maxAttempts =>
              /\ poll.pc = "thrown"
              /\ poll.error = BulkTimedOut
              /\ poll.polls = maxAttempts
        /\ Cardinality({BulkFailed, BulkCanceled, BulkTimedOut}) = 3)
  /\ <>(poll.pc \in {"returned", "thrown"})

\* C26 witness: the operation was found running by every one of the 120
\* queries and the call threw the timeout.
C26_Witness ==
  /\ poll.pc = "thrown"
  /\ poll.error = BulkTimedOut
  /\ poll.polls = maxAttempts
  /\ poll.status = "RUNNING"

\* C27: whatever lines a bulk-export result holds, a line that is not JSON
\* among them, the parse does not fail and returns every variant line that
\* has the attribute and whose product line is in the result.
C27_MalformedLineSkipped ==
  bulk.stage = 1 =>
    /\ ~bulk.thrown
    /\ \A i \in VariantLinesAt(TRUE) :
         ~Falsy(MpnOf(bulk.lines[i])) =>
           \E k \in DOMAIN bulk.variants : bulk.variants[k].id = bulk.lines[i].id

\* C28: every started run of a full sync ends, and no step ends it before
\* its time: a run ends only by its completing statement or in its catch,
\* and then its job is completed or failed, unless the statement of the catch
\* was itself rejected, which leaves the job as it was.
C28_RunEndsFinalized ==
  /\ [][\A j \in DOMAIN syncs :
          (syncs[j].pc # "done" /\ syncs'[j].pc = "done")
            => /\ syncs[j].pc \in {"complete", "catch"}
               /\ \/ jobs'[j].status \in {"completed", "failed"}
                  \/ syncs[j].pc = "catch" /\ jobs'[j] = jobs[j]]_vars
  /\ \A j \in 1..MaxJobs :
       (j \in DOMAIN syncs) ~> (j \in DOMAIN syncs /\ syncs[j].pc = "done")

\* C28 witness: both runs have ended, one over two pages with its job
\* completed, the other with its job still running: the statement of its
\* catch was rejected.
C28_Witness ==
  /\ Len(jobs) = 2
  /\ \A j \in DOMAIN syncs : syncs[j].pc = "done"
  /\ \E j \in DOMAIN jobs :
       jobs[j].status = "completed" /\ jobs[j].processed_variants = 2
  /\ \E j \in DOMAIN jobs : jobs[j].status = "running"

\* C29: in every reachable state a job has an error_message only if its
\* status is failed, and a failed job has the non-empty message of the error
\* its run was left with.
C29_ErrorOnlyWhenFailed ==
  \A j \in DOMAIN jobs :
    /\ jobs[j].error_message # Null => jobs[j].status = "failed"
    /\ jobs[j].status = "failed" =>
         jobs[j].error_message \in {FetchFailed, <<"SQLITE_ERROR">>}

\* C29 witness: a job completed without a message next to one that failed on
\* its first statement and holds the message of the rejected statement.
C29_Witness ==
  /\ \E j \in DOMAIN jobs :
       /\ jobs[j].status = "completed"
       /\ jobs[j].error_message = Null
  /\ \E j \in DOMAIN jobs :
       /\ jobs[j].status = "failed"
       /\ jobs[j].error_message = <<"SQLITE_ERROR">>
       /\ jobs[j].processed_variants = 0

\* C30: a search with a positive limit returns at most limit entries, however
\* many rows share the normalized key.
C30_AtMostLimit ==
  (ret.op = "search" /\ ret.limit > 0) => Cardinality(ret.rows) <= ret.limit

\* C30 witness: two rows share the key "7665PP" and a search for it with
\* limit 1 returned one entry.
C30_Witness ==
  /\ ret.op = "search"
  /\ ret.limit = 1
  /\ Cardinality(Matching(index, normalizeMpn(ret.q))) = 2
  /\ Cardinality(ret.rows) = 1

\* the variant a pass of the loop of an update delivery is about to delete
Deleting(h) ==
  /\ hook[h].pc = "loop"
  /\ Falsy(hook[h].variants[hook[h].next].mpn)

\* C31: the statement of a delete delivery removes every row of its product
\* and no row of another product; the deleteVariant of an update delivery
\* removes the row of its variant, if there is one, and no other row, and
\* when there is none it changes nothing and the loop goes on.
C31_DeletesKeepTheRest ==
  [][/\ (del.pc = "delete" /\ del'.pc = "idle")
          => /\ \A r \in index' : r.product_id # ProductGid(del.id)
             /\ \A r \in index : r.product_id # ProductGid(del.id) => r \in index'
             /\ index' \subseteq index
     /\ \A h \in 1..MaxHooks :
          (Deleting(h) /\ hook'[h] # hook[h])
            => LET id == hook[h].variants[hook[h].next].id
               IN  /\ \A r \in index' : r.variant_id # id
                   /\ \A r \in index : r.variant_id # id => r \in index'
                   /\ index' \subseteq index
                   /\ Cardinality(index \ index') <= 1
                   /\ hook'[h].pc \in {"loop", "logged"}
                   /\ hook'[h].removed = hook[h].removed + 1]_vars

\* C31 witness: the delete delivery of product 1 removed its two rows and
\* left the row of product 2.
C31_Witness ==
  /\ last.op = "deleteProductVariants"
  /\ last.product_id = ProductGid("1")
  /\ last.changes = 2
  /\ {r.variant_id : r \in index} = {"v3"}

\* the variant a pass of the loop of an update delivery is about to upsert
Upserting(h) ==
  /\ hook[h].pc = "loop"
  /\ ~Falsy(hook[h].variants[hook[h].next].mpn)

\* C32: no two rows share a variant_id; and an upsert leaves one row for
\* its variant, every column of which holds the value of this call, leaves
\* every other row as it was, and adds no row when the variant had one.
C32_UpsertReplacesTheRow ==
  /\ [](\A r, x \in index : r.variant_id = x.variant_id => r = x)
  /\ [][\A h \in 1..MaxHooks :
          (Upserting(h) /\ hook'[h] # hook[h])
            => LET variant == hook[h].variants[hook[h].next]
                   product == hook[h].product
                   others(idx) == {r \in idx : r.variant_id # variant.id}
               IN  /\ \E r \in index' :
                        /\ r.variant_id = variant.id
                        /\ r.product_id = ProductGid(product.id)
                        /\ r.product_handle = product.handle
                        /\ r.product_title = product.title
                        /\ r.variant_title = variant.title
                        /\ r.image_url = variant.image.url
                        /\ r.mpn = variant.mpn
                        /\ r.mpn_normalized = normalizeMpn(variant.mpn)
                        /\ r.sku = variant.sku
                        /\ r.price = variant.price
                        /\ index' \ others(index') = {r}
                   /\ others(index') = others(index)
                   /\ others(index) # index => Cardinality(index') = Cardinality(index)]_vars

\* C32 witness: the row of v1 was upserted twice in a row, the second time
\* from revision 2 with an image and the raw key "T567L", while the row of
\* v3, written from revision 1, is as it was.
C32_Witness ==
  /\ last.op = "upsertVariant"
  /\ last.variant_id = "v1"
  /\ last.again
  /\ last.mpn = MpnT567L
  /\ \E r \in index :
       /\ r.variant_id = "v1"
       /\ r.product_title = Text("product", ProductGid("1"), 2)
       /\ r.sku = Text("sku", "v1", 2)
       /\ r.image_url = <<"image">>
       /\ r.mpn_normalized = MpnT567L
  /\ \E r \in index :
       /\ r.variant_id = "v3"
       /\ r.product_title = Text("product", ProductGid("2"), 1)

\* the rows of the product a delivery is about
RowsOfProduct(idx, h) ==
  {r \in idx : r.product_id = ProductGid(hook[h].product.id)}

\* the fetched variants of a delivery that carry an mpn, as rows are keyed
FetchedWithMpn(h) ==
  {[variant_id |-> hook[h].variants[i].id, mpn |-> hook[h].variants[i].mpn] :
     i \in {k \in DOMAIN hook[h].variants : ~Falsy(hook[h].variants[k].mpn)}}

\* C33 as stated: once an update delivery is ingested, every row of its
\* product stands for a fetched variant with a non-empty mpn.
C33_OnlyFetchedRemain ==
  \A h \in 1..MaxHooks :
    hook[h].pc = "logged" =>
      \A r \in RowsOfProduct(index, h) :
        [variant_id |-> r.variant_id, mpn |-> r.mpn] \in FetchedWithMpn(h)

\* C33, amended: once an update delivery is ingested, every row of its
\* product whose variant is in the fetched state stands for a fetched variant
\* with a non-empty mpn; and no step of the ingestion touches a row of a
\* variant other than the one the pass is about, so that the rows of variants
\* absent from the fetched state are as they were.
C33_FetchedRowsCurrent ==
  /\ [](\A h \in 1..MaxHooks :
         hook[h].pc = "logged" =>
           \A r \in RowsOfProduct(index, h) :
             (\E i \in DOMAIN hook[h].variants : hook[h].variants[i].id = r.variant_id)
               => [variant_id |-> r.variant_id, mpn |-> r.mpn] \in FetchedWithMpn(h))
  /\ [][\A h \in 1..MaxHooks :
          hook'[h] # hook[h] =>
            LET passed == IF hook[h].pc = "loop"
                          THEN {hook[h].variants[hook[h].next].id} ELSE {}
            IN  {r \in index' : r.variant_id \notin passed}
                  = {r \in index : r.variant_id \notin passed}]_vars

\* C33 witness: a delivery for product 1 was ingested from a fetched state
\* that holds v1 only, and the row of v2, written by an earlier delivery,
\* is still in the index next to the row of v1.
C33_Witness ==
  /\ hook[1].pc = "logged"
  /\ hook[1].product.id = "1"
  /\ Len(hook[1].variants) = 1
  /\ hook[1].variants[1].id = "v1"
  /\ hook[1].updated = 1
  /\ {r.variant_id : r \in RowsOfProduct(index, 1)} = {"v1", "v2"}

\* C34: a delivery whose fetch returned no variant is logged at once with
\* both counters at zero, and from its receipt to its log the index is left
\* as it was, the rows of its product included.
C34_EmptyFetchChangesNothing ==
  [][\A h \in 1..MaxHooks :
       /\ (hook[h].pc = "fetch" /\ hook'[h].variants = <<>> /\ hook'[h] # hook[h])
            => /\ hook'[h].pc = "logged"
               /\ hook'[h].updated = 0
               /\ hook'[h].removed = 0
               /\ index' = index
       /\ (hook'[h].pc = "fetch" /\ hook'[h] # hook[h]) => index' = index]_vars

\* C34 witness: a delivery for product 1 was logged with nothing fetched
\* while the index holds both rows of product 1.
C34_Witness ==
  /\ hook[1].pc = "logged"
  /\ hook[1].product.id = "1"
  /\ hook[1].variants = <<>>
  /\ hook[1].updated = 0
  /\ hook[1].removed = 0
  /\ {r.variant_id : r \in RowsOfProduct(index, 1)} = {"v1", "v2"}

\* the rows the first n upserts of a run wrote, in the order of the listing
UpsertedRows(task, n) ==
  {RowOf(SyncVariant(task.seen[i])) : i \in 1..n}

\* C35: when a run that was alone fails after its first page was requested,
\* the index its catch leaves behind holds exactly the rows of the upserts
\* the run applied before the failure, and none from before the run.
C35_FailedSyncNotRolledBack ==
  [][\A j \in DOMAIN syncs :
       (syncs[j].pc = "catch" /\ syncs'[j].pc = "done" /\ syncs[j].pageCount >= 1)
         => /\ syncs[j].upserted <= Len(syncs[j].seen)
            /\ index' = UpsertedRows(syncs[j], syncs[j].upserted)]_vars

\* C35 witness: a first sync completed with three upserts, the two variants
\* of product 1 among them; a second one upserted v3 from its first page,
\* failed on the request for its second page, and left v3 alone in the index.
C35_Witness ==
  /\ Len(jobs) = 2
  /\ jobs[1].status = "completed"
  /\ jobs[1].indexed_variants = 3
  /\ jobs[2].status = "failed"
  /\ jobs[2].error_message = FetchFailed
  /\ jobs[2].processed_variants = 1
  /\ jobs[2].indexed_variants = 1
  /\ syncs[2].pc = "done"
  /\ {r.variant_id : r \in index} = {"v3"}

\* C36: in every state, the row of every sync job has
\* indexed_variants <= processed_variants.
C36_IndexedAtMostProcessed ==
  \A j \in DOMAIN jobs :
    jobs[j].indexed_variants <= jobs[j].processed_variants

\* no variant id was returned twice to the run
NoIdRepeated(task) ==
  \A i, k \in DOMAIN task.seen : task.seen[i].id = task.seen[k].id => i = k

\* C37 as stated: when a full sync that ran alone completes, the
\* indexed_variants of its job is the number of rows of the index.
C37_CountIsIndexSize ==
  [][\A j \in DOMAIN syncs :
       (syncs[j].pc = "complete" /\ jobs'[j].status = "completed")
         => jobs'[j].indexed_variants = getIndexStats(index').total_variants]_vars

\* C37, amended: when a full sync that ran alone completes, the
\* indexed_variants of its job is the number of upserts the run applied, one
\* for each variant the listing returned; it is the number of rows of the
\* index when no variant id was returned twice, and greater otherwise.
C37_CountIsUpserts ==
  [][\A j \in DOMAIN syncs :
       (syncs[j].pc = "complete" /\ jobs'[j].status = "completed")
         => LET total == getIndexStats(index').total_variants
            IN  /\ jobs'[j].indexed_variants = syncs[j].upserted
                /\ jobs'[j].indexed_variants = Len(syncs[j].seen)
                /\ IF NoIdRepeated(syncs[j])
                   THEN jobs'[j].indexed_variants = total
                   ELSE jobs'[j].indexed_variants > total]_vars

\* C37 witness: a sync whose two pages both returned v3 completed with
\* indexed_variants = 2 over an index of one row.
C37_Witness ==
  /\ Len(jobs) = 1
  /\ jobs[1].status = "completed"
  /\ jobs[1].indexed_variants = 2
  /\ jobs[1].processed_variants = 2
  /\ syncs[1].pc = "done"
  /\ {r.variant_id : r \in index} = {"v3"}

\* C38: for one upstream state of a product, the rows the update path
\* upserts are, field for field, the rows the full-sync path upserts, a
\* variant without an image under a product with a featured image included.
C38_SameRowOnBothPaths ==
  (paths.updated /\ paths.synced) => paths.viaUpdate = paths.viaSync

\* the lines of a result with its product lines moved to the front, the
\* order among the product lines and among the others kept
ProductsFirst(lines) ==
  SelectSeq(lines, IsProductLine)
    \o SelectSeq(lines, LAMBDA line : ~IsProductLine(line))

\* C39: whatever the order of the lines, the parser returns the variants,
\* each with its product, and the skipped count that it returns for the same
\* lines with the product lines first.
C39_LineOrderIrrelevant ==
  Parsed =>
    LET sorted == downloadAndParseBulkResults(ProductsFirst(bulk.lines))
    IN  /\ bulk.variants = sorted.variants
        /\ bulk.skippedNoMpn = sorted.skippedNoMpn
        /\ \A i \in VariantLinesAt(TRUE) :
             ~Falsy(MpnOf(bulk.lines[i]))
               => \E k \in DOMAIN bulk.variants :
                    /\ bulk.variants[k].id = bulk.lines[i].id
                    /\ bulk.variants[k].product.id = bulk.lines[i].parentId

\* C39 witness: a result whose variant line with an mpn stands before the
\* only line of its product was parsed, and the variant was returned with
\* that product.
C39_Witness ==
  /\ Parsed
  /\ \E i \in VariantLinesAt(TRUE) :
       /\ ~Falsy(MpnOf(bulk.lines[i]))
       /\ \A k \in DOMAIN bulk.lines :
            (IsProductLine(bulk.lines[k]) /\ bulk.lines[k].id = bulk.lines[i].parentId)
              => k > i
       /\ \E k \in DOMAIN bulk.variants :
            /\ bulk.variants[k].id = bulk.lines[i].id
            /\ bulk.variants[k].product.id = bulk.lines[i].parentId

\* C40: a call of bulkFetchVariants whose poll found the operation COMPLETED
\* without a url starts no download and throws nothing: it goes on to return,
\* and what it returns is the empty list.
C40_NoUrlMeansEmpty ==
  (poll.status = "COMPLETED" /\ Falsy(poll.url)) =>
    /\ poll.pc \in {"returned", "fetched"}
    /\ poll.variants = <<>>
    /\ poll.downloads = 0
    /\ poll.error = Null
    /\ poll.pc = "returned" => ENABLED BulkDownload

\* C40 witness: after a poll that waited once, the operation was found
\* COMPLETED without a url, and the call returned [] without a download.
C40_Witness ==
  /\ poll.pc = "fetched"
  /\ poll.status = "COMPLETED"
  /\ poll.url = Null
  /\ poll.polls = 2
  /\ poll.variants = <<>>
  /\ poll.downloads = 0
  /\ poll.error = Null

====
